---- MODULE Spec2Model ----
(***************************************************************************)
(* syfop: a network of nodes is compiled into a linear optimisation model. *)
(* The module follows Network.__init__ (src/syfop/network.py) step by      *)
(* step: the validation of the node list, the creation of the variables,   *)
(* the wiring of the output connections, the constraints of every node     *)
(* (src/syfop/node_base.py, src/syfop/node.py), the objective, and         *)
(* Network.optimize.  Numbers are exact rationals <<numerator,             *)
(* denominator>>; a constraint is kept as linopy keeps it: a name, the     *)
(* terms of the left side, a sign and a constant right side.               *)
(***************************************************************************)
EXTENDS Integers, Sequences, FiniteSets, TLC

\* number of time stamps of the network's time coordinates (time_coords_num)
NumTimeSteps == 3
\* largest number of node objects handed to Network()
MaxNodes == 3
\* largest value a solver variable takes in the assignments that are tried
MaxVal == 3

Times == 1..NumTimeSteps

(***************************************************************************)
(* Rational numbers, for Python's float arithmetic on the values the       *)
(* networks use (0.5, 0.25, ...).                                          *)
(***************************************************************************)
Abs(x) == IF x < 0 THEN -x ELSE x

RECURSIVE Gcd(_, _)
Gcd(a, b) == IF b = 0 THEN a ELSE Gcd(b, a % b)

Rat(n, d) ==
    LET g == Gcd(Abs(n), Abs(d))
        s == IF d < 0 THEN -1 ELSE 1
    IN  <<(s * n) \div g, (s * d) \div g>>

R(n) == <<n, 1>>
RAdd(p, q) == Rat(p[1] * q[2] + q[1] * p[2], p[2] * q[2])
RSub(p, q) == Rat(p[1] * q[2] - q[1] * p[2], p[2] * q[2])
RMul(p, q) == Rat(p[1] * q[1], p[2] * q[2])
RDiv(p, q) == Rat(p[1] * q[2], p[2] * q[1])
RNeg(p) == <<-p[1], p[2]>>
RLe(p, q) == p[1] * q[2] <= q[1] * p[2]
RLt(p, q) == p[1] * q[2] < q[1] * p[2]

RECURSIVE RSum(_)
RSum(s) == IF s = <<>> THEN R(0) ELSE RAdd(Head(s), RSum(Tail(s)))

\* a time series with the same value at every time stamp
ConstSeries(v) == [t \in Times |-> v]
ZeroSeries == ConstSeries(R(0))

(***************************************************************************)
(* Units (pint).  A unit is a dimension vector and a scale to the base     *)
(* unit of that dimension.                                                 *)
(***************************************************************************)
MkUnit(cur, pow, time, mass, scale) ==
    [cur |-> cur, pow |-> pow, time |-> time, mass |-> mass, scale |-> scale]

Dimensionless == MkUnit(0, 0, 0, 0, R(1))
EUR == MkUnit(1, 0, 0, 0, R(1))
kEUR == MkUnit(1, 0, 0, 0, R(1000))
MW == MkUnit(0, 1, 0, 0, R(1))
kW == MkUnit(0, 1, 0, 0, Rat(1, 1000))
Hour == MkUnit(0, 0, 1, 0, R(1))
Tonne == MkUnit(0, 0, 0, 1, R(1))

UnitMul(a, b) ==
    MkUnit(a.cur + b.cur, a.pow + b.pow, a.time + b.time, a.mass + b.mass,
           RMul(a.scale, b.scale))
UnitDiv(a, b) ==
    MkUnit(a.cur - b.cur, a.pow - b.pow, a.time - b.time, a.mass - b.mass,
           RDiv(a.scale, b.scale))

MWh == UnitMul(MW, Hour)
TonnePerHour == UnitDiv(Tonne, Hour)

SameDimension(a, b) ==
    /\ a.cur = b.cur
    /\ a.pow = b.pow
    /\ a.time = b.time
    /\ a.mass = b.mass

Qty(mag, unit) == [mag |-> mag, unit |-> unit]

\* Quantity.to(unit).magnitude, for quantities of the unit's dimension
ToMagnitude(q, unit) == RMul(q.mag, RDiv(q.unit.scale, unit.scale))

\* the commodities of syfop.units.default_units the networks use
Commodities == {"electricity", "co2", "hydrogen", "gas"}

default_units ==
    [c \in Commodities |->
        CASE c = "electricity" -> MW
          [] c = "co2" -> TonnePerHour
          [] c = "hydrogen" -> TonnePerHour
          [] c = "gas" -> MW]

(***************************************************************************)
(* Time coordinates: pd.date_range(str(year), freq=freq, periods=num).     *)
(* Time stamps are counted in half hours since the start of 2020.          *)
(***************************************************************************)
Freqs == {"30min", "h", "2h"}

HalfHoursPerStep(freq) ==
    CASE freq = "30min" -> 1
      [] freq = "h" -> 2
      [] freq = "2h" -> 4

YearStart(year) == (year - 2020) * 17520

date_range(year, freq, num) ==
    [i \in 1..num |-> YearStart(year) + (i - 1) * HalfHoursPerStep(freq)]

\* a variant that takes every interval for one hour
one_hour(time_coords) == R(1)

\* a variant without the assertion
any_intervals(tc) == [type |-> "", msg |-> "", components |-> {}, status |-> "",
                      termination |-> ""]

\* assert (interval_lengths == interval_lengths[0]).all()
interval_length_error(tc) ==
    IF \E i \in 1..(Len(tc) - 1) : tc[i + 1] - tc[i] # tc[2] - tc[1]
    THEN [type |-> "AssertionError", msg |-> "timestes are not equidistant",
          components |-> {}, status |-> "", termination |-> ""]
    ELSE [type |-> "", msg |-> "", components |-> {}, status |-> "", termination |-> ""]

\* np.diff(time_coords)[0] / np.timedelta64(1, "h")
interval_length_h(time_coords) == Rat(time_coords[2] - time_coords[1], 2)

\* a variant that rolls the other way: roll(time=-1)
RollForward(t) == IF t = NumTimeSteps THEN 1 ELSE t + 1

\* time.roll(time=1): the value at t is the value one step earlier, the
\* first step takes the value of the last one
Roll(t) == IF t = 1 THEN NumTimeSteps ELSE t - 1

(***************************************************************************)
(* Python values: Optional values, dicts in insertion order.               *)
(***************************************************************************)
\* an attribute that is None, that holds a value, or that the object lacks
None(dflt) == [attr |-> TRUE, some |-> FALSE, v |-> dflt]
Some(v) == [attr |-> TRUE, some |-> TRUE, v |-> v]
Absent(dflt) == [attr |-> FALSE, some |-> FALSE, v |-> dflt]

Range(s) == {s[i] : i \in DOMAIN s}

\* a dict is the sequence of its items [k, v] in insertion order
DictKeys(d) == [i \in DOMAIN d |-> d[i].k]
DictValues(d) == [i \in DOMAIN d |-> d[i].v]
DictHas(d, k) == \E i \in DOMAIN d : d[i].k = k
DictGet(d, k) == d[CHOOSE i \in DOMAIN d : d[i].k = k].v
\* d[k] = v
DictSet(d, k, v) ==
    IF DictHas(d, k)
    THEN [d EXCEPT ![CHOOSE i \in DOMAIN d : d[i].k = k] = [k |-> k, v |-> v]]
    ELSE Append(d, [k |-> k, v |-> v])

RECURSIVE DictFromItems(_)
\* {k: v for ...}: a dict comprehension over the items in order
DictFromItems(items) ==
    IF items = <<>> THEN <<>>
    ELSE LET n == Len(items)
         IN  DictSet(DictFromItems(SubSeq(items, 1, n - 1)), items[n].k, items[n].v)

(***************************************************************************)
(* Flows: a flow is a constant time series with a unit (xr.DataArray), a   *)
(* linopy.Variable or a linopy.LinearExpression.  A term is a coefficient  *)
(* per time stamp times a variable; roll = 1 reads the variable one time   *)
(* stamp earlier.                                                          *)
(***************************************************************************)
Term(var, coef, roll) == [var |-> var, coef |-> coef, roll |-> roll]

ConstFlow(values, unit) ==
    [kind |-> "const", terms |-> <<>>, const |-> values, unit |-> unit]
VarFlow(name) ==
    [kind |-> "var", terms |-> <<Term(name, ConstSeries(R(1)), 0)>>,
     const |-> ZeroSeries, unit |-> Dimensionless]
ExprFlow(terms, const) ==
    [kind |-> "expr", terms |-> terms, const |-> const, unit |-> Dimensionless]

\* Python's int 0, the start value of sum()
IntZero == ConstFlow(ZeroSeries, Dimensionless)

\* isinstance(x, linopy.Variable) or isinstance(x, linopy.LinearExpression)
IsLinopy(x) == x.kind \in {"var", "expr"}

ScaleTerms(terms, c) ==
    [i \in DOMAIN terms |->
        [terms[i] EXCEPT !.coef = [t \in Times |-> RMul(c[t], terms[i].coef[t])]]]

\* c * x, for a number or a time series of numbers c
Scale(c, x) ==
    IF IsLinopy(x)
    THEN ExprFlow(ScaleTerms(x.terms, c), [t \in Times |-> RMul(c[t], x.const[t])])
    ELSE ConstFlow([t \in Times |-> RMul(c[t], x.const[t])], x.unit)

\* x + y
Plus(x, y) ==
    IF IsLinopy(x) \/ IsLinopy(y)
    THEN ExprFlow(x.terms \o y.terms, [t \in Times |-> RAdd(x.const[t], y.const[t])])
    ELSE ConstFlow([t \in Times |-> RAdd(x.const[t], y.const[t])], y.unit)

\* x - y
Minus(x, y) == Plus(x, Scale(ConstSeries(R(-1)), y))

RECURSIVE SumFlows(_)
\* sum(flows): ((0 + flows[1]) + flows[2]) + ...
SumFlows(flows) ==
    IF flows = <<>> THEN IntZero
    ELSE Plus(SumFlows(SubSeq(flows, 1, Len(flows) - 1)), flows[Len(flows)])

\* strip_unit(x, commodity): the magnitude in the commodity's default unit;
\* linopy objects pass unchanged
strip_unit(x, commodity) ==
    IF x.kind = "const"
    THEN ConstFlow([t \in Times |->
                       ToMagnitude(Qty(x.const[t], x.unit), default_units[commodity])],
                   Dimensionless)
    ELSE x

(***************************************************************************)
(* The node objects a caller has built before it calls Network().  Every   *)
(* object is the result of a node constructor of src/syfop/node.py; the    *)
(* list handed to Network() is any list of distinct objects of this table. *)
(***************************************************************************)
NoStorage ==
    [present |-> FALSE, costs |-> Qty(R(0), UnitDiv(EUR, MW)),
     max_charging_speed |-> R(1), storage_loss |-> R(0), charging_loss |-> R(0)]

\* Storage(costs, max_charging_speed, storage_loss, charging_loss)
Storage(costs, max_charging_speed, storage_loss, charging_loss) ==
    [present |-> TRUE, costs |-> costs, max_charging_speed |-> max_charging_speed,
     storage_loss |-> storage_loss, charging_loss |-> charging_loss]

NoCosts == Qty(R(0), UnitDiv(EUR, MW))
NoSeries == [values |-> ZeroSeries, unit |-> Dimensionless, num |-> 0,
             year |-> 2020, freq |-> "h"]

\* const_time_series(...) with the values of the series and its time
\* coordinates pd.date_range(str(year), freq=freq, periods=num)
Series(values, unit, num, year, freq) ==
    [values |-> values, unit |-> unit, num |-> num, year |-> year, freq |-> freq]

\* a series that is 1 on the odd time stamps and 1/2 on the even ones
Alternating == [t \in Times |-> IF t % 2 = 1 THEN R(1) ELSE Rat(1, 2)]

NodeDefaults ==
    [name |-> "", kind |-> "Node", inputs |-> <<>>,
     input_commodities |-> None(<<>>), costs |-> NoCosts, storage |-> NoStorage,
     convert_factor |-> Some(Qty(R(1), Dimensionless)),
     convert_factors |-> None(<<>>),
     input_proportions |-> None(<<>>), output_proportions |-> None(<<>>),
     series |-> NoSeries, input_flow_costs |-> Qty(R(0), UnitDiv(EUR, MWh)),
     size_commodity |-> None(""), outputs |-> None(<<>>)]

Ids == 1..23

\* str as input_commodities: one label per input, at least one
Broadcast(commodity, inputs) ==
    [i \in 1..(IF Len(inputs) = 0 THEN 1 ELSE Len(inputs)) |-> commodity]

Object(id, freq) ==
    CASE id = 1 ->   \* wind turbines with a battery, used with demand before
        [NodeDefaults EXCEPT
            !.name = "wind", !.kind = "NodeScalableInput",
            !.series = Series(Alternating, Dimensionless, NumTimeSteps, 2020, freq),
            !.costs = Qty(R(1), UnitDiv(EUR, MW)),
            !.storage = Storage(Qty(R(3), UnitDiv(kEUR, MW)), Rat(1, 2), Rat(1, 4),
                                Rat(1, 2)),
            !.outputs = Some(<<4>>)]
      [] id = 2 ->
        [NodeDefaults EXCEPT
            !.name = "solar_pv", !.kind = "NodeScalableInput",
            !.series = Series(ConstSeries(Rat(1, 2)), Dimensionless, NumTimeSteps,
                              2020, freq),
            !.costs = Qty(R(2), UnitDiv(kEUR, MW))]
      [] id = 3 ->
        [NodeDefaults EXCEPT
            !.name = "electricity", !.kind = "Node", !.inputs = <<2, 1>>,
            !.input_commodities = Some(Broadcast("electricity", <<2, 1>>)),
            !.input_proportions =
                Some(<<[k |-> "solar_pv", v |-> Rat(1, 4)],
                       [k |-> "wind", v |-> Rat(3, 4)]>>),
            !.size_commodity = Some("electricity")]
      [] id = 4 ->
        [NodeDefaults EXCEPT
            !.name = "demand", !.kind = "NodeFixOutput", !.inputs = <<1>>,
            !.input_commodities = Some(Broadcast("electricity", <<1>>)),
            !.series = Series(ConstSeries(R(2000)), kW, NumTimeSteps, 2020, freq)]
      [] id = 5 ->   \* a gas power plant with a gas tank that costs nothing
        [NodeDefaults EXCEPT
            !.name = "gas", !.kind = "Node", !.inputs = <<>>,
            !.input_commodities = Some(Broadcast("gas", <<>>)),
            !.costs = Qty(R(1), UnitDiv(EUR, kW)),
            !.convert_factor = Some(Qty(R(2), Dimensionless)),
            !.input_flow_costs = Qty(R(42), UnitDiv(EUR, MWh)),
            !.storage = Storage(Qty(R(0), UnitDiv(EUR, MW)), R(1), R(0), R(0)),
            !.size_commodity = Some("electricity")]
      [] id = 6 ->
        [NodeDefaults EXCEPT
            !.name = "gas_storage", !.kind = "NodeFixOutput", !.inputs = <<2>>,
            !.input_commodities = Some(Broadcast("electricity", <<2>>)),
            !.series = Series(ConstSeries(R(1)), MW, NumTimeSteps, 2020, freq)]
      [] id = 7 ->   \* a second object with the name "wind"
        [NodeDefaults EXCEPT
            !.name = "wind", !.kind = "NodeFixOutput", !.inputs = <<1>>,
            !.input_commodities = Some(Broadcast("electricity", <<1>>)),
            !.series = Series(ConstSeries(R(5)), MW, NumTimeSteps, 2020, freq)]
      [] id = 8 ->   \* an output series with one time stamp too many
        [NodeDefaults EXCEPT
            !.name = "late", !.kind = "NodeFixOutput", !.inputs = <<1>>,
            !.input_commodities = Some(Broadcast("electricity", <<1>>)),
            !.series = Series(ConstSeries(R(5)), MW, NumTimeSteps + 1, 2020, freq)]
      [] id = 9 ->   \* an output series of the year before
        [NodeDefaults EXCEPT
            !.name = "stale", !.kind = "NodeFixOutput", !.inputs = <<1>>,
            !.input_commodities = Some(Broadcast("electricity", <<1>>)),
            !.series = Series(ConstSeries(R(5)), MW, NumTimeSteps, 2019, freq)]
      [] id = 10 ->
        [NodeDefaults EXCEPT
            !.name = "co2", !.kind = "NodeFixInput",
            !.series = Series(Alternating, TonnePerHour, NumTimeSteps, 2020, freq),
            !.output_proportions =
                Some(<<[k |-> "co2_sink", v |-> Rat(1, 4)],
                       [k |-> "co2_store", v |-> Rat(3, 4)]>>)]
      [] id = 11 ->
        [NodeDefaults EXCEPT
            !.name = "co2_sink", !.kind = "Node", !.inputs = <<10>>,
            !.input_commodities = Some(Broadcast("co2", <<10>>)),
            !.costs = Qty(R(3), UnitDiv(EUR, TonnePerHour)),
            !.convert_factor = Some(Qty(R(2), Dimensionless)),
            !.size_commodity = Some("co2")]
      [] id = 12 ->
        [NodeDefaults EXCEPT
            !.name = "co2_store", !.kind = "NodeFixOutput", !.inputs = <<10>>,
            !.input_commodities = Some(Broadcast("co2", <<10>>)),
            !.series = Series(ConstSeries(Rat(3, 4)), TonnePerHour, NumTimeSteps, 2020,
                              freq)]
      [] id = 13 ->   \* a plant for power and heat, see ChpPowerPlant
        [NodeDefaults EXCEPT
            !.name = "chp_power_plant", !.kind = "Node", !.inputs = <<>>,
            !.input_commodities = Some(<<"gas">>),
            !.costs = Qty(R(3), UnitDiv(EUR, MW)),
            !.convert_factors =
                Some(<<[k |-> "electricity",
                        v |-> [input_commodity |-> "gas",
                               factor |-> Qty(R(2), Dimensionless)]],
                       [k |-> "heat",
                        v |-> [input_commodity |-> "gas",
                               factor |-> Qty(R(4), Dimensionless)]]>>),
            !.size_commodity = Some("electricity")]
      [] id = 14 ->   \* nothing is declared to come after it
        [NodeDefaults EXCEPT
            !.name = "curtailment", !.kind = "Node", !.inputs = <<1>>,
            !.input_commodities = Some(Broadcast("electricity", <<1>>))]
      [] id = 15 ->   \* takes something else than electricity from wind
        [NodeDefaults EXCEPT
            !.name = "computer", !.kind = "Node", !.inputs = <<1>>,
            !.input_commodities = Some(<<"hydrogen">>),
            !.size_commodity = Some("hydrogen")]
      [] id = 20 ->   \* takes something else than electricity from solar_pv
        [NodeDefaults EXCEPT
            !.name = "electrolyzer", !.kind = "Node", !.inputs = <<2>>,
            !.input_commodities = Some(<<"hydrogen">>),
            !.size_commodity = Some("hydrogen")]
      [] id = 21 ->   \* a node without inputs, series and input flow costs
        [NodeDefaults EXCEPT
            !.name = "biomass", !.kind = "Node", !.inputs = <<>>,
            !.input_commodities = Some(Broadcast("gas", <<>>)),
            !.costs = Qty(R(1), UnitDiv(EUR, MW)),
            !.size_commodity = Some("gas")]
      [] id = 16 ->   \* two input commodities
        [NodeDefaults EXCEPT
            !.name = "methanol_synthesis", !.kind = "Node", !.inputs = <<1, 2>>,
            !.input_commodities = Some(<<"hydrogen", "electricity">>),
            !.input_proportions =
                Some(<<[k |-> "wind", v |-> Rat(1, 4)],
                       [k |-> "solar_pv", v |-> Rat(3, 4)]>>),
            !.costs = Qty(R(3), UnitDiv(EUR, TonnePerHour)),
            !.size_commodity = Some("hydrogen")]
      [] id = 17 ->
        [NodeDefaults EXCEPT
            !.name = "electricity_demand", !.kind = "NodeFixOutput", !.inputs = <<13>>,
            !.input_commodities = Some(Broadcast("electricity", <<13>>)),
            !.series = Series(ConstSeries(R(3)), MW, NumTimeSteps, 2020, freq)]
      [] id = 18 ->
        [NodeDefaults EXCEPT
            !.name = "heat", !.kind = "Node", !.inputs = <<13>>,
            !.input_commodities = Some(Broadcast("heat", <<13>>)),
            !.size_commodity = Some("heat")]
      [] id = 19 ->   \* a scalable input that costs nothing
        [NodeDefaults EXCEPT
            !.name = "hydro", !.kind = "NodeScalableInput",
            !.series = Series(ConstSeries(Rat(1, 2)), Dimensionless, NumTimeSteps,
                              2020, freq),
            !.costs = Qty(R(0), UnitDiv(EUR, MW))]
      [] id = 22 ->   \* a node with a size, named like the storage of gas
        [NodeDefaults EXCEPT
            !.name = "storage_gas", !.kind = "Node", !.inputs = <<5>>,
            !.input_commodities = Some(Broadcast("electricity", <<5>>)),
            !.costs = Qty(R(2), UnitDiv(EUR, MW)),
            !.size_commodity = Some("electricity")]
      [] id = 23 ->   \* a tank whose content grows by half in every time step
        [NodeDefaults EXCEPT
            !.name = "gas_tank", !.kind = "Node", !.inputs = <<>>,
            !.input_commodities = Some(Broadcast("gas", <<>>)),
            !.costs = Qty(R(1), UnitDiv(EUR, MW)),
            !.storage = Storage(Qty(R(0), UnitDiv(EUR, MW)), R(1), Rat(-1, 2), R(0)),
            !.size_commodity = Some("gas")]

\* the parameters chp_power_plant may have been built with instead
ChpVariants ==
    {"convert_factors", "convert_factor_none", "convert_factor_half",
     "no_convert_factors", "storage", "no_size_commodity"}

\* chp_power_plant as it was built, o is the object of the table
ChpPowerPlant(o, variant) ==
    CASE variant = "convert_factors" -> o
      [] variant = "convert_factor_none" ->
            [o EXCEPT !.convert_factor = None(Qty(R(1), Dimensionless))]
      [] variant = "convert_factor_half" ->
            [o EXCEPT !.convert_factor = Some(Qty(Rat(1, 2), Dimensionless))]
      [] variant = "no_convert_factors" ->
            [o EXCEPT !.convert_factors = None(<<>>)]
      [] variant = "storage" ->
            [o EXCEPT !.storage = Storage(Qty(R(1), UnitDiv(EUR, MW)), R(1), R(0), R(0))]
      [] variant = "no_size_commodity" ->
            [o EXCEPT !.size_commodity = None("")]

\* the object of the table as the caller built it
Built(o, id, variant) == IF id = 13 THEN ChpPowerPlant(o, variant) ELSE o

\* the parameter time_coords of Network: None, or time stamps that are
\* 1 h and 2 h apart, or time stamps that are 1.5 h apart
TimeCoordsArgs == {None(<<>>), Some(<<0, 2, 6>>), Some(<<0, 3, 6>>)}

\* the units argument of Network(): none, or electricity in kW and a unit
\* for heat, which default_units does not have
UnitMaps == {<<>>, <<[k |-> "electricity", v |-> kW], [k |-> "heat", v |-> MW]>>}

\* isinstance(node, NodeInputBase), isinstance(node, NodeOutputBase)
IsNodeInputBase(kind) == kind \in {"NodeScalableInput", "NodeFixInput"}
IsNodeOutputBase(kind) == kind = "NodeFixOutput"

(***************************************************************************)
(* The state.                                                              *)
(*   objects       the node objects the caller has built, by their number  *)
(*                 in the table above                                      *)
(*   nodes, args   the arguments of Network(): the list of node objects,   *)
(*                 time_coords_freq and total_cost_unit                     *)
(*   pc, idx       the position in Network.__init__ / Network.optimize and *)
(*                 the index of the node a loop over the nodes works on    *)
(*   exc           the exception that ended the call, if any               *)
(*   time_coords   Network.time_coords                                     *)
(*   model         the linopy model: its variables, constraints, objective *)
(*                 and, after solve(), status and solution                 *)
(*   attrs         the attributes of every node object that Network sets   *)
(*   storage_checked  whether _check_storage_level_zero has run            *)
(***************************************************************************)
VARIABLES nodes, objects, args, pc, idx, exc, time_coords, model, attrs, storage_checked

vars == <<nodes, objects, args, pc, idx, exc, time_coords, model, attrs,
         storage_checked>>

Node(id) == objects[id]

NoException ==
    [type |-> "", msg |-> "", components |-> {}, status |-> "", termination |-> ""]
ValueError(msg) == [NoException EXCEPT !.type = "ValueError", !.msg = msg]

NoModel ==
    [created |-> FALSE, variables |-> <<>>, constraints |-> <<>>,
     objective |-> None(<<>>), status |-> "initialized",
     termination_condition |-> "", solution |-> <<>>]

\* the attributes a node object has when its constructor returns
InitialAttrs(o) ==
    [outputs |-> o.outputs,
     input_commodities |-> o.input_commodities,
     output_commodities |->
        IF IsNodeOutputBase(o.kind) THEN Some(<<o.input_commodities.v[1]>>)
        ELSE None(<<>>),
     input_flows |->
        CASE IsNodeInputBase(o.kind) ->
                Some(<<[k |-> "", v |-> ConstFlow(o.series.values, o.series.unit)]>>)
          [] IsNodeOutputBase(o.kind) -> Absent(<<>>)
          [] OTHER -> None(<<>>),
     output_flows |->
        IF IsNodeOutputBase(o.kind)
        THEN Some(<<[k |-> o.name, v |-> ConstFlow(o.series.values, o.series.unit)]>>)
        ELSE None(<<>>),
     size |-> IF o.kind = "Node" THEN None("") ELSE Absent(""),
     storage_vars |-> None(<<>>)]

\* the objects that are tried together in one list
Scenarios ==
    {{1, 2, 3}, {1, 4, 7}, {1, 8, 9}, {1, 4, 5}, {2, 5, 6}, {10, 11, 12},
     {13, 17, 18}, {1, 4, 14}, {1, 4, 15}, {2, 6, 20}, {1, 2, 16}, {21}, {2, 4, 19},
     {5, 22}, {23}}

\* the lists of distinct objects of one scenario, in any order
NodeLists ==
    {s \in UNION {[1..n -> Ids] : n \in 0..MaxNodes} :
        /\ \A i, j \in DOMAIN s : i # j => s[i] # s[j]
        /\ \E scenario \in Scenarios : Range(s) \subseteq scenario}

Init ==
    /\ nodes \in NodeLists
    /\ args \in [freq : Freqs, total_cost_unit : {EUR, kEUR}, units : UnitMaps,
                  time_coords : TimeCoordsArgs]
    /\ \E variant \in ChpVariants :
          /\ objects = [id \in Ids |-> Built(Object(id, args.freq), id, variant)] \o <<>>
          \* the other chp_power_plant objects and the units argument are
          \* tried with hourly time stamps and costs in EUR
          /\ variant # "convert_factors" => 13 \in Range(nodes) /\ args.units = <<>>
          /\ (variant # "convert_factors" \/ args.units # <<>>) =>
                args.freq = "h" /\ args.total_cost_unit = EUR
          \* the argument time_coords is tried with the other arguments left
          \* at their defaults, for the lists of nodes without a series
          /\ args.time_coords.some =>
                /\ variant = "convert_factors" /\ args.units = <<>>
                /\ args.freq = "h" /\ args.total_cost_unit = EUR
                /\ Range(nodes) \subseteq {5, 21}
    /\ pc = "start"
    /\ idx = 1
    /\ exc = NoException
    /\ time_coords = <<>>
    /\ model = NoModel
    /\ attrs = [id \in Ids |-> InitialAttrs(Node(id))]
    /\ storage_checked = FALSE

\* raise: the call ends with the exception
Raise(e) ==
    /\ pc' = "raised"
    /\ exc' = e

Goto(label) ==
    /\ pc' = label
    /\ exc' = exc

NodeNames == [i \in DOMAIN nodes |-> Node(nodes[i]).name]

(***************************************************************************)
(* Network.__init__: the checks before the model is built.                 *)
(***************************************************************************)
CheckNotEmpty ==
    /\ pc = "start"
    /\ IF Len(nodes) = 0
       THEN Raise(ValueError("empty network not allowed"))
       ELSE Goto("check_inputs")
    /\ UNCHANGED <<nodes, objects, args, idx, time_coords, model, attrs, storage_checked>>

all_input_nodes == UNION {Range(Node(nodes[i]).inputs) : i \in DOMAIN nodes}

CheckInputNodes ==
    /\ pc = "check_inputs"
    /\ IF ~(all_input_nodes \subseteq Range(nodes))
       THEN Raise(ValueError("nodes used as input node, but missing in list of nodes"))
       ELSE Goto("check_names")
    /\ UNCHANGED <<nodes, objects, args, idx, time_coords, model, attrs, storage_checked>>

CheckNodeNames ==
    /\ pc = "check_names"
    /\ IF Cardinality(Range(NodeNames)) # Len(nodes)
       THEN Raise(ValueError("node names are not unique"))
       ELSE Goto("set_time_coords")
    /\ UNCHANGED <<nodes, objects, args, idx, time_coords, model, attrs, storage_checked>>

\* time_coords is None: pd.date_range(str(time_coords_year), freq, periods)
SetTimeCoords ==
    /\ pc = "set_time_coords"
    /\ time_coords' = IF args.time_coords.some THEN args.time_coords.v
                      ELSE date_range(2020, args.freq, NumTimeSteps)
    /\ Goto("check_time_coords")
    /\ UNCHANGED <<nodes, objects, args, idx, model, attrs, storage_checked>>

\* the time coordinates of the time series a node was constructed with
SeriesTime(o) == date_range(o.series.year, o.series.freq, o.series.num)

\* the nodes with a flow given as time series in the field: the fields of
\* the other nodes are missing or None at this point
HasSeries(id, field) ==
    /\ attrs[id][field].attr
    /\ attrs[id][field].some
    /\ attrs[id][field].v # <<>>

InconsistentLength(id) == Len(SeriesTime(Node(id))) # Len(time_coords)
\* a variant that does not compare the time stamps
StampsNotCompared(id) == FALSE

InconsistentStamps(id) ==
    \E i \in DOMAIN time_coords : SeriesTime(Node(id))[i] # time_coords[i]

check_consistent_time_coords ==
    LET bad == {<<f, i>> \in {"input_flows", "output_flows"} \X DOMAIN nodes :
                    /\ HasSeries(nodes[i], f)
                    /\ \/ InconsistentLength(nodes[i])
                       \/ InconsistentStamps(nodes[i])}
    IN  IF bad = {} THEN NoException
        ELSE LET first == CHOOSE b \in bad :
                    \A c \in bad :
                        \/ b[1] = c[1] /\ b[2] <= c[2]
                        \/ b[1] = "input_flows" /\ c[1] = "output_flows"
             IN  IF InconsistentLength(nodes[first[2]])
                 THEN ValueError("inconsistent time_coords: length")
                 ELSE ValueError("inconsistent time_coords: time stamps differ")

CheckConsistentTimeCoords ==
    /\ pc = "check_time_coords"
    /\ IF check_consistent_time_coords # NoException
       THEN Raise(check_consistent_time_coords)
       ELSE Goto("check_connected")
    /\ UNCHANGED <<nodes, objects, args, idx, time_coords, model, attrs, storage_checked>>

(***************************************************************************)
(* Network._create_graph and Network._check_all_nodes_connected.           *)
(***************************************************************************)
StorageVertex(name) == name \o "_storage"

\* the nx.DiGraph: vertices are names, add_edge adds its end points
create_graph(ns) ==
    LET objs == {Node(ns[i]) : i \in DOMAIN ns}
        storage_edges ==
            UNION {{<<StorageVertex(o.name), o.name>>, <<o.name, StorageVertex(o.name)>>} :
                      o \in {x \in objs : x.storage.present}}
        input_edges ==
            UNION {{<<Node(o.inputs[j]).name, o.name>> : j \in DOMAIN o.inputs} :
                      o \in objs}
        edges == storage_edges \cup input_edges
    IN  [vertices |-> {o.name : o \in objs} \cup {e[1] : e \in edges}
                        \cup {e[2] : e \in edges},
         edges |-> edges]

RECURSIVE Reachable(_, _)
\* the vertices linked to a vertex of `seen` by edges in either direction
Reachable(edges, seen) ==
    LET more == seen \cup {e[2] : e \in {x \in edges : x[1] \in seen}}
                     \cup {e[1] : e \in {x \in edges : x[2] \in seen}}
    IN  IF more = seen THEN seen ELSE Reachable(edges, more)

\* nx.weakly_connected_components(graph)
weakly_connected_components(graph) ==
    {Reachable(graph.edges, {v}) : v \in graph.vertices}

CheckAllNodesConnected ==
    /\ pc = "check_connected"
    /\ LET components == weakly_connected_components(create_graph(nodes))
       IN  IF Cardinality(components) > 1
           THEN Raise([ValueError("network is not connected, there are multiple components")
                         EXCEPT !.components = components])
           ELSE Goto("create_model")
    /\ UNCHANGED <<nodes, objects, args, idx, time_coords, model, attrs, storage_checked>>

(***************************************************************************)
(* Network._generate_optimization_model.                                   *)
(***************************************************************************)
\* model.add_variables(name=name, lower=0): a scalar variable, or with
\* timeseries_variable one variable per time stamp
Variable(name, dims) == [name |-> name, lower |-> R(0), dims |-> dims]

add_variables(m, new) == [m EXCEPT !.variables = m.variables \o new]

\* model.add_constraints(lhs <sign> rhs, name=name): linopy keeps the
\* variable terms on the left and the constants on the right; left and right
\* are the two sides of the comparison as the caller wrote them
Constraint(name, lhs, sign, rhs) ==
    LET d == Minus(lhs, rhs)
    IN  [name |-> name, terms |-> d.terms, sign |-> sign,
         rhs |-> [t \in Times |-> RNeg(d.const[t])],
         left |-> lhs, right |-> rhs]

add_constraints(m, new) == [m EXCEPT !.constraints = m.constraints \o new]

CreateModel ==
    /\ pc = "create_model"
    /\ model' = [NoModel EXCEPT !.created = TRUE]
    /\ idx' = 1
    /\ Goto("create_variables")
    /\ UNCHANGED <<nodes, objects, args, time_coords, attrs, storage_checked>>

\* NodeBase._create_input_flows_variables; input nodes override it with
\* nothing to do
input_flow_names(o) ==
    IF IsNodeInputBase(o.kind) THEN <<>>
    ELSE [j \in DOMAIN o.inputs |-> "flow_" \o Node(o.inputs[j]).name \o "_" \o o.name]

create_input_flows(o, a) ==
    IF IsNodeInputBase(o.kind) THEN a.input_flows
    ELSE Some(DictFromItems(
            [j \in DOMAIN o.inputs |->
                [k |-> Node(o.inputs[j]).name, v |-> VarFlow(input_flow_names(o)[j])]]))

\* NodeBase._create_storage_variables
storage_variables(o) ==
    [size |-> "size_storage_" \o o.name,
     level |-> "storage_level_" \o o.name,
     charge |-> "storage_charge_" \o o.name,
     discharge |-> "storage_discharge_" \o o.name]

\* NodeScalableBase.create_variables creates size if costs is not None or 0
HasSizeVariable(o) ==
    /\ o.kind \in {"Node", "NodeScalableInput"}
    /\ o.costs.mag # R(0)

\* the variables node.create_variables adds to the model, in order
created_variables(o) ==
    [j \in DOMAIN input_flow_names(o) |-> Variable(input_flow_names(o)[j], "time")]
    \o (IF o.storage.present
        THEN <<Variable(storage_variables(o).size, "scalar"),
               Variable(storage_variables(o).level, "time"),
               Variable(storage_variables(o).charge, "time"),
               Variable(storage_variables(o).discharge, "time")>>
        ELSE <<>>)
    \o (IF HasSizeVariable(o) THEN <<Variable("size_" \o o.name, "scalar")>> ELSE <<>>)

\* node.create_variables(model, time_coords) for the classes Node,
\* NodeFixInput, NodeFixOutput and NodeScalableInput
create_variables(o, a) ==
    LET a1 == [a EXCEPT !.input_flows = create_input_flows(o, a),
                        !.storage_vars = IF o.storage.present
                                         THEN Some(storage_variables(o))
                                         ELSE a.storage_vars,
                        !.size = IF HasSizeVariable(o) THEN Some("size_" \o o.name)
                                 ELSE a.size]
    IN  IF o.kind = "NodeScalableInput"
        THEN \* self.input_flows[""] = self.size * self.input_flows[""]
             [a1 EXCEPT !.input_flows =
                Some(DictSet(a1.input_flows.v, "",
                     ExprFlow(<<Term(a1.size.v, DictGet(a1.input_flows.v, "").const, 0)>>,
                              ZeroSeries)))]
        ELSE a1

\* a variant that binds the output edges before the variables exist
VariablesSkipped ==
    /\ pc = "create_variables"
    /\ Goto("set_output_connections")
    /\ UNCHANGED <<nodes, objects, args, idx, time_coords, model, attrs, storage_checked>>

CreateVariables ==
    /\ pc = "create_variables"
    /\ IF idx > Len(nodes)
       THEN /\ Goto("set_output_connections")
            /\ UNCHANGED <<idx, model, attrs>>
       ELSE LET id == nodes[idx]
                o == Node(id)
            IN  IF o.kind = "NodeScalableInput" /\ ~HasSizeVariable(o)
                THEN \* self.size does not exist
                     /\ Raise([NoException EXCEPT !.type = "AttributeError",
                                                  !.msg = "no attribute 'size'"])
                     /\ model' = add_variables(model, created_variables(o))
                     /\ UNCHANGED <<idx, attrs>>
                ELSE /\ model' = add_variables(model, created_variables(o))
                     /\ attrs' = [attrs EXCEPT ![id] = create_variables(o, attrs[id])]
                     /\ idx' = idx + 1
                     /\ Goto("create_variables")
    /\ UNCHANGED <<nodes, objects, args, time_coords, storage_checked>>

\* the position of the first occurrence of x in the list: list.index(x)
IndexOf(list, x) == CHOOSE i \in DOMAIN list : list[i] = x /\ \A j \in 1..(i - 1) : list[j] # x

RECURSIVE Flatten(_)
Flatten(lists) == IF lists = <<>> THEN <<>> ELSE Head(lists) \o Flatten(Tail(lists))

\* a variant with one loop, which empties node.outputs in the loop that
\* appends: a node keeps the outputs that come after it in the list
outputs_reset_in_loop(id) ==
    Flatten([i \in DOMAIN nodes |->
        SelectSeq([j \in DOMAIN Node(nodes[i]).inputs |->
                      IF Node(nodes[i]).inputs[j] = id /\ i > IndexOf(nodes, id)
                      THEN nodes[i] ELSE 0],
                  LAMBDA x : x # 0)])

\* for node in nodes: for input_ in node.inputs: input_.outputs.append(node),
\* after node.outputs = [] for every node: the outputs of the node `id`
collected_outputs(id) ==
    Flatten([i \in DOMAIN nodes |->
        SelectSeq([j \in DOMAIN Node(nodes[i]).inputs |->
                      IF Node(nodes[i]).inputs[j] = id THEN nodes[i] ELSE 0],
                  LAMBDA x : x # 0)])

\* a variant that keeps the outputs a node object holds already
\* (if input_.outputs is None: input_.outputs = [])
KeepOutputs(a) ==
    [id \in Ids |->
        IF id \in Range(nodes)
        THEN [a[id] EXCEPT !.outputs = Some(a[id].outputs.v \o collected_outputs(id))]
        ELSE a[id]]

ResetOutputs(a) ==
    [id \in Ids |->
        IF id \in Range(nodes) THEN [a[id] EXCEPT !.outputs = Some(collected_outputs(id))]
        ELSE a[id]]

\* the commodities the downstream nodes declare for the edge from `id`
declared_output_commodities(a, id) ==
    LET outs == a[id].outputs.v
        known == SelectSeq(outs, LAMBDA m : a[m].input_commodities.some)
    IN  [j \in DOMAIN known |->
            a[known[j]].input_commodities.v[IndexOf(Node(known[j]).inputs, id)]] \o <<>>

\* what the loop over the nodes does to one node whose output_flows is None
bind_output_flows(a, id) ==
    LET outs == a[id].outputs.v
        declared == declared_output_commodities(a, id)
    IN  [a EXCEPT
            ![id].output_flows =
                Some(DictFromItems(
                    [j \in DOMAIN outs |->
                        [k |-> Node(outs[j]).name,
                         v |-> DictGet(a[outs[j]].input_flows.v, Node(id).name)]])),
            ![id].output_commodities =
                \* [node.size_commodity], which is [None] if it is not set
                IF Len(declared) = 0 THEN Some(<<Node(id).size_commodity.v>>)
                ELSE Some(declared)]

\* the error the loop raises at the node, if any
bind_output_error(a, id) ==
    IF \E j \in DOMAIN a[id].outputs.v :
          \/ ~a[a[id].outputs.v[j]].input_flows.some
          \/ ~DictHas(a[a[id].outputs.v[j]].input_flows.v, Node(id).name)
    THEN [NoException EXCEPT !.type = "KeyError", !.msg = "input_flows"]
    ELSE IF /\ Cardinality(Range(declared_output_commodities(a, id))) > 1
            /\ Node(id).storage.present
    THEN ValueError("storage not supported for multiple output commodities")
    ELSE NoException

RECURSIVE set_output_flows(_, _)
\* the third loop of _set_output_connections from the node at index i on:
\* the attributes and the exception that ended it
set_output_flows(a, i) ==
    IF i > Len(nodes) THEN [attrs |-> a, exc |-> NoException]
    ELSE IF a[nodes[i]].output_flows.some THEN set_output_flows(a, i + 1)
    ELSE IF bind_output_error(a, nodes[i]) # NoException
         THEN \* the ValueError comes after the two assignments
              [attrs |-> IF bind_output_error(a, nodes[i]).type = "ValueError"
                         THEN bind_output_flows(a, nodes[i]) ELSE a,
               exc |-> bind_output_error(a, nodes[i])]
         ELSE set_output_flows(bind_output_flows(a, nodes[i]), i + 1)

set_output_connections(a) == set_output_flows(ResetOutputs(a), 1)

SetOutputConnections ==
    /\ pc = "set_output_connections"
    /\ LET r == set_output_connections(attrs)
       IN  /\ attrs' = r.attrs
           /\ IF r.exc # NoException THEN Raise(r.exc)
              ELSE Goto("set_missing_input_commodities")
    /\ UNCHANGED <<nodes, objects, args, idx, time_coords, model, storage_checked>>

\* a variant without the assertions
commodities_not_asserted(a) == NoException

\* Network._set_missing_input_commodities
missing_input_commodities_error(a) ==
    IF \E i \in DOMAIN nodes :
          /\ ~a[nodes[i]].input_commodities.some
          /\ Cardinality(Range(a[nodes[i]].output_commodities.v)) # 1
    THEN [NoException EXCEPT !.type = "AssertionError",
                             !.msg = "unexpected number of output_commodities"]
    ELSE IF \E i \in DOMAIN nodes :
          /\ ~a[nodes[i]].input_commodities.some
          /\ ~IsNodeInputBase(Node(nodes[i]).kind)
    THEN [NoException EXCEPT !.type = "AssertionError", !.msg = "unexpected type"]
    ELSE NoException

set_missing_input_commodities(a) ==
    [id \in Ids |->
        IF id \in Range(nodes) /\ ~a[id].input_commodities.some
        THEN [a[id] EXCEPT !.input_commodities = Some(<<a[id].output_commodities.v[1]>>)]
        ELSE a[id]]

SetMissingInputCommodities ==
    /\ pc = "set_missing_input_commodities"
    /\ IF missing_input_commodities_error(attrs) # NoException
       THEN /\ Raise(missing_input_commodities_error(attrs))
            /\ UNCHANGED attrs
       ELSE /\ attrs' = set_missing_input_commodities(attrs)
            /\ Goto("add_leaf_flow_variables")
    /\ UNCHANGED <<nodes, objects, args, idx, time_coords, model, storage_checked>>

\* Network._add_leaf_flow_variables
leaf_input(id) == "input_flow_" \o Node(id).name
leaf_output(id) == "output_flow_" \o Node(id).name

\* a variant that never adds a variable
never_a_leaf(a, id) == FALSE

NeedsLeafInput(a, id) == Len(a[id].input_flows.v) = 0
NeedsLeafOutput(a, id) == Len(a[id].output_flows.v) = 0

leaf_variables(a) ==
    Flatten([i \in DOMAIN nodes |->
        (IF NeedsLeafInput(a, nodes[i])
         THEN <<Variable(leaf_input(nodes[i]), "time")>> ELSE <<>>)
        \o (IF NeedsLeafOutput(a, nodes[i])
            THEN <<Variable(leaf_output(nodes[i]), "time")>> ELSE <<>>)])

add_leaf_flow_variables(a) ==
    [id \in Ids |->
        IF id \notin Range(nodes) THEN a[id]
        ELSE [a[id] EXCEPT
                !.input_flows =
                    IF NeedsLeafInput(a, id)
                    THEN Some(DictSet(a[id].input_flows.v, "", VarFlow(leaf_input(id))))
                    ELSE @,
                !.output_flows =
                    IF NeedsLeafOutput(a, id)
                    THEN Some(DictSet(a[id].output_flows.v, "", VarFlow(leaf_output(id))))
                    ELSE @]]

AddLeafFlowVariables ==
    /\ pc = "add_leaf_flow_variables"
    /\ model' = add_variables(model, leaf_variables(attrs))
    /\ attrs' = add_leaf_flow_variables(attrs)
    /\ idx' = 1
    /\ Goto("create_constraints")
    /\ UNCHANGED <<nodes, objects, args, time_coords, storage_checked>>

(***************************************************************************)
(* The constraints of a node (src/syfop/node_base.py).  Every operator     *)
(* returns the constraints it adds and the exception that ended it.        *)
(***************************************************************************)
Result(cons, e) == [cons |-> cons, exc |-> e]

\* NodeBase._get_flows: the flows of the node with the commodity
get_flows(flows, attached_nodes, commodities, commodity) ==
    IF Len(attached_nodes) = 0 THEN DictValues(flows)
    ELSE LET sel == SelectSeq([j \in DOMAIN attached_nodes |-> j],
                              LAMBDA j : commodities[j] = commodity)
         IN  [j \in DOMAIN sel |-> DictGet(flows, Node(attached_nodes[sel[j]]).name)]

get_flows_error(attached_nodes, commodities, commodity) ==
    IF Len(attached_nodes) = 0
    THEN IF commodities # <<commodity>>
         THEN ValueError("node has no input/output nodes, commodities should be set")
         ELSE NoException
    ELSE IF Len(attached_nodes) # Len(commodities)
         THEN ValueError("zip() arguments have different lengths")
         ELSE NoException

\* a variant that looks at the output commodities only
output_commodities_only(o, a) ==
    IF ~o.convert_factors.some /\ Cardinality(Range(a.output_commodities.v)) > 1
    THEN ValueError("convert_factors is required for multiple input or output commodities")
    ELSE NoException

\* NodeBase._get_convertion_factors: the exception it raises
convertion_factors_error(o, a) ==
    IF ~o.convert_factors.some
    THEN IF \/ Cardinality(Range(a.input_commodities.v)) > 1
            \/ Cardinality(Range(a.output_commodities.v)) > 1
         THEN ValueError("convert_factors is required for multiple input or output commodities")
         ELSE NoException
    ELSE \* self.convert_factor != 1.0 or self.convert_factor is not None
         IF o.convert_factor # Some(Qty(R(1), Dimensionless)) \/ o.convert_factor.some
         THEN ValueError("convert_factors is only allowed if convert_factor is 1.0 or None")
         ELSE NoException

\* NodeBase._get_convertion_factors: output commodity -> (input commodity,
\* factor)
get_convertion_factors(o, a) ==
    IF ~o.convert_factors.some
    THEN <<[k |-> a.output_commodities.v[1],
            v |-> [input_commodity |-> a.input_commodities.v[1],
                   factor |-> o.convert_factor.v]]>>
    ELSE o.convert_factors.v

\* convert_factor.to(Unit(default_units[out]) / Unit(default_units[in])).magnitude
convert_factor_mag(factor, input_commodity, output_commodity) ==
    ToMagnitude(factor, UnitDiv(default_units[output_commodity],
                                default_units[input_commodity]))

convert_factor_error(factor, input_commodity, output_commodity) ==
    IF input_commodity \notin DOMAIN default_units \/ output_commodity \notin DOMAIN default_units
    THEN [NoException EXCEPT !.type = "KeyError", !.msg = "default_units"]
    ELSE IF ~SameDimension(factor.unit, UnitDiv(default_units[output_commodity],
                                                default_units[input_commodity]))
    THEN [NoException EXCEPT !.type = "DimensionalityError", !.msg = "convert_factor"]
    ELSE NoException

StorageCharge(a) == VarFlow(a.storage_vars.v.charge)
StorageDischarge(a) == VarFlow(a.storage_vars.v.discharge)
StorageLevel(a) == VarFlow(a.storage_vars.v.level)
StorageSize(a) == VarFlow(a.storage_vars.v.size)

\* the first exception of a list of exceptions, in order
FirstException(es) ==
    IF \A i \in DOMAIN es : es[i] = NoException THEN NoException
    ELSE es[CHOOSE i \in DOMAIN es :
                es[i] # NoException /\ \A j \in 1..(i - 1) : es[j] = NoException]

\* a step that raises e, or else has the result r
OrElse(e, r) == IF e # NoException THEN Result(<<>>, e) ELSE r

\* two steps in sequence: the second runs if the first did not raise
Then(first, rest) ==
    IF first.exc # NoException THEN first
    ELSE Result(first.cons \o rest.cons, rest.exc)

\* if not isinstance(lhs, linopy...): lhs, rhs = rhs, lhs
swap_sides(lhs, rhs) == IF ~IsLinopy(lhs) THEN <<rhs, lhs>> ELSE <<lhs, rhs>>

\* a variant with lhs = lhs + rhs in the place of lhs = lhs - rhs
variables_added_to_lhs(s) == IF IsLinopy(s[2]) THEN <<Plus(s[1], s[2]), IntZero>> ELSE s

\* a variant without the workaround: rhs keeps its variables
variables_left_on_rhs(s) == s

\* if isinstance(rhs, linopy...): lhs = lhs - rhs; rhs = 0
variables_to_lhs(s) == IF IsLinopy(s[2]) THEN <<Minus(s[1], s[2]), IntZero>> ELSE s

\* if self.storage is not None: lhs = lhs + charge - discharge
add_storage_flows(o, a, s) ==
    IF o.storage.present
    THEN <<Minus(Plus(s[1], StorageCharge(a)), StorageDischarge(a)), s[2]>>
    ELSE s

\* NodeBase._create_constraint_inout_flow_balance_commodity
create_constraint_inout_flow_balance_commodity(o, a, input_flows_mag, output_flows_mag,
                                               factor_mag) ==
    IF ~IsLinopy(SumFlows(output_flows_mag)) /\ o.storage.present
    THEN Result(<<>>, [NoException EXCEPT !.type = "RuntimeError",
                          !.msg = "NodeFixOutput with Storage not supported"])
    ELSE Result(
        <<Constraint("inout_flow_balance_" \o o.name,
            add_storage_flows(o, a,
                variables_to_lhs(
                    swap_sides(SumFlows(output_flows_mag),
                               Scale(ConstSeries(factor_mag),
                                     SumFlows(input_flows_mag)))))[1],
            "=",
            add_storage_flows(o, a,
                variables_to_lhs(
                    swap_sides(SumFlows(output_flows_mag),
                               Scale(ConstSeries(factor_mag),
                                     SumFlows(input_flows_mag)))))[2])>>,
        NoException)

\* the list of the distinct output commodities, in the order of their first
\* occurrence: set(self.output_commodities)
FirstOccurrences(list) ==
    SelectSeq([j \in DOMAIN list |-> j], LAMBDA j : IndexOf(list, list[j]) = j)

Distinct(list) == [k \in DOMAIN FirstOccurrences(list) |-> list[FirstOccurrences(list)[k]]]

\* [strip_unit(flow, commodity) for flow in flows]
strip_units(flows, commodity) ==
    [i \in DOMAIN flows |-> strip_unit(flows[i], commodity)]

\* one pass of the loop over the output commodities, conv is
\* convertion_factors[output_commodity]
flow_balance_commodity(o, a, output_commodity, conv) ==
    OrElse(
        FirstException(
            <<convert_factor_error(conv.factor, conv.input_commodity, output_commodity),
              get_flows_error(o.inputs, a.input_commodities.v, conv.input_commodity),
              get_flows_error(a.outputs.v, a.output_commodities.v, output_commodity)>>),
        create_constraint_inout_flow_balance_commodity(o, a,
            strip_units(get_flows(a.input_flows.v, o.inputs, a.input_commodities.v,
                                  conv.input_commodity),
                        conv.input_commodity),
            strip_units(get_flows(a.output_flows.v, a.outputs.v, a.output_commodities.v,
                                  output_commodity),
                        output_commodity),
            convert_factor_mag(conv.factor, conv.input_commodity, output_commodity)))

RECURSIVE flow_balance_commodities(_, _, _, _)
\* the loop over the output commodities from the j-th one on
flow_balance_commodities(o, a, commodities, j) ==
    IF j > Len(commodities) THEN Result(<<>>, NoException)
    ELSE IF ~DictHas(get_convertion_factors(o, a), commodities[j])
    THEN Result(<<>>, [NoException EXCEPT !.type = "KeyError", !.msg = "convert_factors"])
    ELSE Then(flow_balance_commodity(o, a, commodities[j],
                                     DictGet(get_convertion_factors(o, a), commodities[j])),
              flow_balance_commodities(o, a, commodities, j + 1))

\* NodeBase._create_constraint_inout_flow_balance
create_constraint_inout_flow_balance(o, a) ==
    IF Len(a.input_flows.v) = 0 \/ Len(a.output_flows.v) = 0
    THEN Result(<<>>, [NoException EXCEPT !.type = "AssertionError",
                                          !.msg = "node has no input/output flows"])
    ELSE OrElse(convertion_factors_error(o, a),
                flow_balance_commodities(o, a, Distinct(a.output_commodities.v), 1))

\* x.roll(time=1) of a variable or expression
roll(x) == [x EXCEPT !.terms = [i \in DOMAIN x.terms |-> [x.terms[i] EXCEPT !.roll = 1]]]

ScaleBy(c, x) == Scale(ConstSeries(c), x)

\* NodeBase._create_storage_constraints
create_storage_constraints(o, a) ==
    LET size == StorageSize(a)
        level == StorageLevel(a)
        charge == StorageCharge(a)
        discharge == StorageDischarge(a)
    IN  <<Constraint("max_charging_speed_" \o o.name,
                     Minus(charge, ScaleBy(o.storage.max_charging_speed, size)),
                     "<=", IntZero),
          Constraint("max_discharging_speed_" \o o.name,
                     Minus(discharge, ScaleBy(o.storage.max_charging_speed, size)),
                     "<=", IntZero),
          Constraint("storage_max_level_" \o o.name, Minus(level, size), "<=", IntZero),
          Constraint("storage_level_balance_" \o o.name,
                     Plus(Minus(Minus(level,
                                      ScaleBy(RSub(R(1), o.storage.storage_loss),
                                              roll(level))),
                                ScaleBy(RSub(R(1), o.storage.charging_loss), charge)),
                          discharge),
                     "=", IntZero)>>

\* a variant that sums all the flows, the one of the entry included
AllFlows(flows, name) == DictValues(flows)

\* sum(flow for n, flow in flows.items() if n != name)
OtherFlows(flows, name) ==
    DictValues(SelectSeq(flows, LAMBDA item : item.k # name))

\* NodeBase._create_proportion_constraints
create_proportion_constraints(o, proportions, flows) ==
    IF \E i \in DOMAIN proportions : ~DictHas(flows, proportions[i].k)
    THEN Result(<<>>, [NoException EXCEPT !.type = "KeyError", !.msg = "flows"])
    ELSE Result(
        [i \in DOMAIN proportions |->
            LET name == proportions[i].k
                proportion == proportions[i].v
                total_input == SumFlows(OtherFlows(flows, name))
            IN  Constraint("proportion_" \o o.name \o "_" \o name,
                           Plus(ScaleBy(proportion, total_input),
                                ScaleBy(RSub(proportion, R(1)), DictGet(flows, name))),
                           "=", IntZero)],
        NoException)

\* a variant that leaves out the charge of the storage
size_constraint_without_charge(o, a) ==
    IF o.kind = "Node" /\ a.size.some
    THEN <<Constraint("limit_outflow_by_size_" \o o.name,
                      Minus(SumFlows(DictValues(a.output_flows.v)), VarFlow(a.size.v)),
                      "<=", IntZero)>>
    ELSE <<>>

\* Node.create_constraints: the size of the technology limits its output
create_size_constraint(o, a) ==
    IF o.kind = "Node" /\ a.size.some
    THEN LET lhs == Minus(SumFlows(DictValues(a.output_flows.v)), VarFlow(a.size.v))
         IN  <<Constraint("limit_outflow_by_size_" \o o.name,
                          IF o.storage.present THEN Plus(lhs, StorageCharge(a)) ELSE lhs,
                          "<=", IntZero)>>
    ELSE <<>>

\* node.create_constraints(model): NodeBase.create_constraints, and for the
\* class Node the size constraint after it
create_constraints(o, a) ==
    Then(create_constraint_inout_flow_balance(o, a),
    Then(Result(IF o.storage.present THEN create_storage_constraints(o, a) ELSE <<>>,
                NoException),
    Then(IF o.input_proportions.some
         THEN create_proportion_constraints(o, o.input_proportions.v, a.input_flows.v)
         ELSE Result(<<>>, NoException),
    Then(IF o.output_proportions.some
         THEN create_proportion_constraints(o, o.output_proportions.v, a.output_flows.v)
         ELSE Result(<<>>, NoException),
         Result(create_size_constraint(o, a), NoException)))))

\* the constraints a node has added when its create_constraints ends
AddNodeConstraints(r) ==
    /\ model' = add_constraints(model, r.cons)
    /\ IF r.exc # NoException
       THEN Raise(r.exc) /\ UNCHANGED idx
       ELSE Goto("create_constraints") /\ idx' = idx + 1

CreateConstraints ==
    /\ pc = "create_constraints"
    /\ IF idx > Len(nodes)
       THEN /\ Goto("add_objective")
            /\ UNCHANGED <<idx, model>>
       ELSE AddNodeConstraints(create_constraints(Node(nodes[idx]), attrs[nodes[idx]]))
    /\ UNCHANGED <<nodes, objects, args, time_coords, attrs, storage_checked>>

(***************************************************************************)
(* Network.total_costs: the objective, a list of terms coef * var[t];     *)
(* t = 0 for a scalar variable.                                            *)
(***************************************************************************)
ObjTerm(var, t, coef) == [var |-> var, t |-> t, coef |-> coef]

\* Network.units: default_units.copy() updated with the parameter units
network_units ==
    [c \in Commodities \cup Range(DictKeys(args.units)) |->
        IF DictHas(args.units, c) THEN DictGet(args.units, c) ELSE default_units[c]]

\* node.has_costs()
has_costs(o) == HasSizeVariable(o)

\* node._get_size_commodity()
get_size_commodity(o, a) ==
    IF o.size_commodity.some THEN o.size_commodity.v ELSE a.output_commodities.v[1]

\* costs.to(currency_unit / unit).magnitude
costs_magnitude(costs, currency_unit, unit) ==
    ToMagnitude(costs, UnitDiv(currency_unit, unit))

costs_magnitude_error(costs, currency_unit, commodity, units) ==
    IF commodity \notin DOMAIN units
    THEN [NoException EXCEPT !.type = "KeyError", !.msg = "units"]
    ELSE IF ~SameDimension(costs.unit, UnitDiv(currency_unit, units[commodity]))
    THEN [NoException EXCEPT !.type = "DimensionalityError", !.msg = "costs"]
    ELSE NoException

\* nodes with truthy input_flow_costs
HasInputFlowCosts(o) == o.kind = "Node" /\ o.input_flow_costs.mag # R(0)

HasStorage(o) == o.storage.present

technology_costs(a) ==
    Flatten([i \in DOMAIN nodes |->
        LET o == Node(nodes[i]) IN
        IF has_costs(o)
        THEN <<ObjTerm(a[nodes[i]].size.v, 0,
                       costs_magnitude(o.costs, args.total_cost_unit,
                            default_units[get_size_commodity(o, a[nodes[i]])]))>>
        ELSE <<>>])

storage_costs(a) ==
    Flatten([i \in DOMAIN nodes |->
        LET o == Node(nodes[i]) IN
        IF HasStorage(o)
        THEN <<ObjTerm(a[nodes[i]].storage_vars.v.size, 0,
                       costs_magnitude(o.storage.costs, args.total_cost_unit,
                            default_units[get_size_commodity(o, a[nodes[i]])]))>>
        ELSE <<>>])

\* input_flow_costs_mag * interval_length_h_ * input_flow.sum()
input_flow_costs(a) ==
    Flatten([i \in DOMAIN nodes |->
        LET o == Node(nodes[i])
            input_flow == DictValues(a[nodes[i]].input_flows.v)[1]
            mag == costs_magnitude(o.input_flow_costs, args.total_cost_unit,
                       UnitMul(network_units[a[nodes[i]].input_commodities.v[1]], Hour))
        IN  IF HasInputFlowCosts(o)
            THEN [t \in Times |->
                    ObjTerm(input_flow.terms[1].var, t,
                            RMul(RMul(mag, interval_length_h(time_coords)),
                                 input_flow.terms[1].coef[t]))]
            ELSE <<>>])

total_costs_error(a) ==
    FirstException(
        [i \in DOMAIN nodes |->
            LET o == Node(nodes[i]) IN
            IF has_costs(o)
            THEN costs_magnitude_error(o.costs, args.total_cost_unit,
                                       get_size_commodity(o, a[nodes[i]]), default_units)
            ELSE NoException]
        \o [i \in DOMAIN nodes |->
            LET o == Node(nodes[i]) IN
            IF HasStorage(o)
            THEN costs_magnitude_error(o.storage.costs, args.total_cost_unit,
                                       get_size_commodity(o, a[nodes[i]]), default_units)
            ELSE NoException]
        \o [i \in DOMAIN nodes |->
            LET o == Node(nodes[i])
                fl == a[nodes[i]].input_flows.v
            IN  IF ~HasInputFlowCosts(o) THEN NoException
                ELSE IF Len(fl) # 1
                THEN [NoException EXCEPT !.type = "AssertionError",
                                         !.msg = "only one input_flow is supported"]
                ELSE IF fl[1].v.kind # "var"
                THEN [NoException EXCEPT !.type = "AssertionError",
                                         !.msg = "unexpected input_flow type"]
                ELSE IF interval_length_error(time_coords) # NoException
                THEN interval_length_error(time_coords)
                ELSE IF a[nodes[i]].input_commodities.v[1] \notin DOMAIN network_units
                THEN [NoException EXCEPT !.type = "KeyError", !.msg = "units"]
                ELSE IF ~SameDimension(o.input_flow_costs.unit,
                            UnitDiv(args.total_cost_unit,
                                UnitMul(network_units[a[nodes[i]].input_commodities.v[1]],
                                        Hour)))
                THEN [NoException EXCEPT !.type = "DimensionalityError",
                                         !.msg = "input_flow_costs"]
                ELSE NoException])

\* costs = technology_costs; costs += input flow costs; costs += storage_costs
total_costs(a) == technology_costs(a) \o input_flow_costs(a) \o storage_costs(a)

\* model.add_objective(self.total_costs()), the end of Network.__init__
AddObjective ==
    /\ pc = "add_objective"
    /\ IF total_costs_error(attrs) # NoException
       THEN /\ Raise(total_costs_error(attrs))
            /\ UNCHANGED model
       ELSE /\ model' = [model EXCEPT !.objective = Some(total_costs(attrs))]
            /\ Goto("constructed")
    /\ UNCHANGED <<nodes, objects, args, idx, time_coords, attrs, storage_checked>>

(***************************************************************************)
(* Network.optimize.                                                       *)
(***************************************************************************)
\* what model.solve() reports: (status, termination condition)
SolverOutcomes ==
    {<<"ok", "optimal">>, <<"warning", "infeasible">>, <<"warning", "unbounded">>,
     <<"error", "error">>}

Vals == 0..MaxVal

\* 1e-12, the epsilon of _check_storage_level_zero; the values of a solution
\* are counted in halves of it
Epsilon == 2

\* a variant that looks at the storages whatever they cost
StoragesOfAnyCost == {id \in Range(nodes) : Node(id).storage.present}

\* the nodes whose storage _check_storage_level_zero looks at:
\* hasattr(node, "storage") and node.storage is not None and node.storage.costs > 0
CheckedStorages == {id \in Range(nodes) : /\ Node(id).storage.present
                                          /\ RLt(R(0), Node(id).storage.costs.mag)}

\* the part of model.solution that is read: level and size of the storages;
\* a solution respects the bounds of the variables and level <= size
Solutions ==
    [{id \in Range(nodes) : Node(id).storage.present} ->
        {s \in [level : [Times -> Vals], size : Vals] :
            \A t \in Times : s.level[t] <= s.size}]

\* a variant that does not look at the status
status_ignored(status) == FALSE

\* SolverStatus[model.status] != SolverStatus.ok
solver_failed(status) == status # "ok"

Min(S) == CHOOSE x \in S : \A y \in S : x <= y
Max(S) == CHOOSE x \in S : \A y \in S : x >= y

\* the storages among `checked` whose level is never below the epsilon
never_empty(solution, checked) ==
    {id \in checked : ~(Min(Range(solution[id].level)) < Epsilon)}

\* the storages among `checked` whose level is never above size - epsilon
never_full(solution, checked) ==
    {id \in checked : ~(Max(Range(solution[id].level)) > solution[id].size - Epsilon)}

\* the first node of the list that is in the set
FirstOf(failing) ==
    nodes[CHOOSE i \in DOMAIN nodes :
            /\ nodes[i] \in failing
            /\ \A j \in 1..(i - 1) : nodes[j] \notin failing]

\* the assertion that fails at the first node with a failing one
storage_assertion(empty, full) ==
    IF empty \cup full = {} THEN NoException
    ELSE IF FirstOf(empty \cup full) \in empty
    THEN [NoException EXCEPT !.type = "AssertionError", !.msg = "storage never empty"]
    ELSE [NoException EXCEPT !.type = "AssertionError", !.msg = "storage never full"]

\* Network._check_storage_level_zero: the assertion that fails, if any
check_storage_level_zero(solution) ==
    storage_assertion(never_empty(solution, CheckedStorages),
                      never_full(solution, CheckedStorages))

\* self.model.solve(...)
Solve ==
    /\ pc = "constructed"
    /\ \E outcome \in SolverOutcomes :
         \E solution \in (IF outcome[1] = "ok" THEN Solutions ELSE {<<>>}) :
            model' = [model EXCEPT !.status = outcome[1],
                                   !.termination_condition = outcome[2],
                                   !.solution = solution]
    /\ Goto("check_status")
    /\ UNCHANGED <<nodes, objects, args, idx, time_coords, attrs, storage_checked>>

CheckSolverStatus ==
    /\ pc = "check_status"
    /\ IF solver_failed(model.status)
       THEN Raise([NoException EXCEPT !.type = "SolverError",
                       !.msg = "unable to solve optimization",
                       !.status = model.status,
                       !.termination = model.termination_condition])
       ELSE Goto("check_storage_level_zero")
    /\ UNCHANGED <<nodes, objects, args, idx, time_coords, model, attrs, storage_checked>>

CheckStorageLevelZero ==
    /\ pc = "check_storage_level_zero"
    /\ storage_checked' = TRUE
    /\ IF check_storage_level_zero(model.solution) # NoException
       THEN Raise(check_storage_level_zero(model.solution))
       ELSE Goto("optimized")
    /\ UNCHANGED <<nodes, objects, args, idx, time_coords, model, attrs>>

Next ==
    \/ CheckNotEmpty
    \/ CheckInputNodes
    \/ CheckNodeNames
    \/ SetTimeCoords
    \/ CheckConsistentTimeCoords
    \/ CheckAllNodesConnected
    \/ CreateModel
    \/ CreateVariables
    \/ SetOutputConnections
    \/ SetMissingInputCommodities
    \/ AddLeafFlowVariables
    \/ CreateConstraints
    \/ AddObjective
    \/ Solve
    \/ CheckSolverStatus
    \/ CheckStorageLevelZero

Spec == Init /\ [][Next]_vars

(***************************************************************************)
(* The construction of a node that is not an input node: Node.__init__    *)
(* and NodeOutputBase.__init__.  args holds the arguments of the          *)
(* constructor, attrs the attributes the object has so far; the inputs    *)
(* are nodes of the table, or an object that is not a node.               *)
(***************************************************************************)
NodeClasses == {"Node", "NodeFixOutput"}

NotANode == 0

InputLists == {<<>>, <<1>>, <<1, 2>>, <<1, NotANode>>}

\* the argument input_commodities is a str or a list of str
Str(s) == [str |-> TRUE, list |-> <<s>>]
List(l) == [str |-> FALSE, list |-> l]

InputCommodityArgs ==
    {Str("electricity"), List(<<>>), List(<<"electricity">>),
     List(<<"hydrogen", "electricity">>), List(<<"electricity", "electricity">>)}

Item(k, v) == [k |-> k, v |-> v]

ProportionArgs ==
    {None(<<>>),
     Some(<<Item("wind", Rat(1, 4)), Item("solar_pv", Rat(3, 4))>>),
     Some(<<Item("wind", R(240)), Item("solar_pv", R(8))>>),
     Some(<<Item("wind", R(1))>>),
     Some(<<Item("hydrogen", Rat(1, 4)), Item("electricity", Rat(3, 4))>>),
     Some(<<Item("hydrogen", R(240)), Item("electricity", R(8))>>),
     Some(<<Item("electricity", R(1))>>)}

NodeArgs ==
    [cls : NodeClasses, name : {"methanol_synthesis"}, inputs : InputLists,
     input_commodities : InputCommodityArgs, input_proportions : ProportionArgs,
     storage : {NoStorage, Storage(Qty(R(1), UnitDiv(EUR, MW)), R(1), R(0), R(0))}]

\* an object without attributes
NoAttributes ==
    [name |-> Absent(""), storage |-> Absent(NoStorage), inputs |-> Absent(<<>>),
     input_commodities |-> Absent(<<>>), output_commodities |-> Absent(<<>>),
     input_proportions |-> Absent(<<>>), size |-> Absent("")]

NodeInit ==
    /\ args \in NodeArgs
    /\ attrs = NoAttributes
    /\ pc = "node_base_init"
    /\ exc = NoException
    /\ nodes = <<>>
    /\ objects = [id \in Ids |-> Object(id, "h")] \o <<>>
    /\ idx = 1
    /\ time_coords = <<>>
    /\ model = NoModel
    /\ storage_checked = FALSE

AssertionError(msg) == [NoException EXCEPT !.type = "AssertionError", !.msg = msg]

\* NodeBase.__init__
NodeBaseInit ==
    /\ pc = "node_base_init"
    /\ attrs' = [attrs EXCEPT !.name = Some(args.name),
                              !.storage = Some(args.storage),
                              !.input_commodities = None(<<>>),
                              !.output_commodities = None(<<>>),
                              !.input_proportions = None(<<>>)]
    /\ Goto("preprocess_input_commodities")
    /\ UNCHANGED <<nodes, objects, args, idx, time_coords, model, storage_checked>>

\* NodeBase._preprocess_input_commodities: the exception it raises
preprocess_input_commodities_error(inputs, input_commodities) ==
    IF NotANode \in Range(inputs)
    THEN ValueError("inputs must be of type NodeBase or some subclass")
    ELSE IF ~input_commodities.str /\ Len(inputs) # Len(input_commodities.list)
    THEN ValueError("invalid number of input_commodities provided for node")
    ELSE NoException

\* NodeBase._preprocess_input_commodities: the list it returns
preprocess_input_commodities(inputs, input_commodities) ==
    IF input_commodities.str
    THEN Broadcast(input_commodities.list[1], inputs)
    ELSE input_commodities.list

\* self.inputs = inputs; self.input_commodities = self._preprocess_input_commodities(...)
PreprocessInputCommodities ==
    /\ pc = "preprocess_input_commodities"
    /\ IF preprocess_input_commodities_error(args.inputs, args.input_commodities) # NoException
       THEN /\ Raise(preprocess_input_commodities_error(args.inputs, args.input_commodities))
            /\ attrs' = [attrs EXCEPT !.inputs = Some(args.inputs)]
       ELSE /\ attrs' = [attrs EXCEPT
                  !.inputs = Some(args.inputs),
                  !.input_commodities =
                      Some(preprocess_input_commodities(args.inputs, args.input_commodities)),
                  \* Node.__init__: self.size = None
                  !.size = IF args.cls = "Node" THEN None("") ELSE @]
            /\ Goto(IF args.cls = "Node" THEN "check_proportions" ELSE "single_commodity")
    /\ UNCHANGED <<nodes, objects, args, idx, time_coords, model, storage_checked>>

\* NodeOutputBase.__init__: assert len(set(self.input_commodities)) == 1
SingleInputCommodity ==
    /\ pc = "single_commodity"
    /\ IF Cardinality(Range(attrs.input_commodities.v)) # 1
       THEN /\ Raise(AssertionError("unexpected number of input_commodities for node"))
            /\ UNCHANGED attrs
       ELSE /\ attrs' = [attrs EXCEPT
                  !.output_commodities = Some(<<attrs.input_commodities.v[1]>>)]
            /\ Goto("check_proportions")
    /\ UNCHANGED <<nodes, objects, args, idx, time_coords, model, storage_checked>>

\* NodeBase._check_proportions_valid_or_missing: the exception it raises
check_proportions_valid_or_missing(input_nodes, proportions, commodities) ==
    IF proportions.some
    THEN IF Range(DictKeys(proportions.v)) # {Node(n).name : n \in Range(input_nodes)}
         THEN AssertionError("input_proportions needs to be a dict with keys matching names of inputs")
         ELSE IF RSum(DictValues(proportions.v)) # R(1)
         THEN AssertionError("input_proportions needs to sum up to 1.")
         ELSE NoException
    ELSE IF Cardinality(Range(commodities)) > 1
    THEN ValueError("node has different input_commodities, but no input_proportions provided")
    ELSE NoException

\* self._check_proportions_valid_or_missing(...); self.input_proportions = input_proportions
CheckProportions ==
    /\ pc = "check_proportions"
    /\ IF check_proportions_valid_or_missing(attrs.inputs.v, args.input_proportions,
                                             attrs.input_commodities.v) # NoException
       THEN /\ Raise(check_proportions_valid_or_missing(attrs.inputs.v, args.input_proportions,
                                                        attrs.input_commodities.v))
            /\ UNCHANGED attrs
       ELSE /\ attrs' = [attrs EXCEPT !.input_proportions = args.input_proportions]
            /\ Goto(IF args.cls = "Node" THEN "node_constructed" ELSE "check_storage")
    /\ UNCHANGED <<nodes, objects, args, idx, time_coords, model, storage_checked>>

\* a variant that lets an output node have a storage
storage_allowed(storage) == NoException

\* NodeOutputBase.__init__: if storage is not None: raise NotImplementedError
output_node_storage_error(storage) ==
    IF storage.present
    THEN [NoException EXCEPT !.type = "NotImplementedError",
                             !.msg = "storage is not supported for output nodes"]
    ELSE NoException

RejectStorage ==
    /\ pc = "check_storage"
    /\ IF output_node_storage_error(args.storage) # NoException
       THEN Raise(output_node_storage_error(args.storage))
       ELSE Goto("node_constructed")
    /\ UNCHANGED <<nodes, objects, args, idx, time_coords, model, attrs, storage_checked>>

NodeNext ==
    \/ NodeBaseInit
    \/ PreprocessInputCommodities
    \/ SingleInputCommodity
    \/ CheckProportions
    \/ RejectStorage

NodeSpec == NodeInit /\ [][NodeNext]_vars

(***************************************************************************)
(* The construction of a Storage: Storage.__init__.  args holds the        *)
(* arguments of the constructor, attrs the attributes of the object.       *)
(***************************************************************************)
StorageParameters == {Rat(-1, 2), R(0), Rat(1, 4), Rat(1, 2), R(1), Rat(3, 2)}

StorageArgs ==
    [costs : {Qty(R(0), UnitDiv(EUR, MW)), Qty(R(3), UnitDiv(EUR, MW))},
     max_charging_speed : StorageParameters, storage_loss : StorageParameters,
     charging_loss : StorageParameters]

StorageInit ==
    /\ args \in StorageArgs
    /\ attrs = NoStorage
    /\ pc = "storage_init"
    /\ exc = NoException
    /\ nodes = <<>>
    /\ objects = [id \in Ids |-> Object(id, "h")] \o <<>>
    /\ idx = 1
    /\ time_coords = <<>>
    /\ model = NoModel
    /\ storage_checked = FALSE

\* self.costs = costs; ...; self.charging_loss = charging_loss
StorageAttributes ==
    /\ pc = "storage_init"
    /\ attrs' = Storage(args.costs, args.max_charging_speed, args.storage_loss,
                        args.charging_loss)
    /\ Goto("assert_storage_loss")
    /\ UNCHANGED <<nodes, objects, args, idx, time_coords, model, storage_checked>>

\* assert <condition>
AssertThen(condition, label) ==
    IF condition THEN Goto(label) ELSE Raise(AssertionError(""))

\* assert storage_loss < 1
AssertStorageLoss ==
    /\ pc = "assert_storage_loss"
    /\ AssertThen(RLt(args.storage_loss, R(1)), "assert_charging_loss")
    /\ UNCHANGED <<nodes, objects, args, idx, time_coords, model, attrs, storage_checked>>

\* assert charging_loss < 1
AssertChargingLoss ==
    /\ pc = "assert_charging_loss"
    /\ AssertThen(RLt(args.charging_loss, R(1)), "assert_max_charging_speed")
    /\ UNCHANGED <<nodes, objects, args, idx, time_coords, model, attrs, storage_checked>>

\* assert max_charging_speed <= 1
AssertMaxChargingSpeed ==
    /\ pc = "assert_max_charging_speed"
    /\ AssertThen(RLe(args.max_charging_speed, R(1)), "storage_constructed")
    /\ UNCHANGED <<nodes, objects, args, idx, time_coords, model, attrs, storage_checked>>

StorageNext ==
    \/ StorageAttributes
    \/ AssertStorageLoss
    \/ AssertChargingLoss
    \/ AssertMaxChargingSpeed

StorageSpec == StorageInit /\ [][StorageNext]_vars

\* the nodes and the networks of a program that uses the library
Library == (Init \/ NodeInit) /\ [][Next \/ NodeNext]_vars

(***************************************************************************)
(* The meaning of the linear model.  An assignment gives a value to every  *)
(* variable at every time stamp (at 0 for a scalar variable); a constraint *)
(* holds at a time stamp if its row holds under the assignment.  The       *)
(* properties below quantify over all assignments of whole numbers up to   *)
(* MaxVal to the variables of a row.                                       *)
(***************************************************************************)
IsScalar(var) ==
    \E i \in DOMAIN model.variables :
        model.variables[i].name = var /\ model.variables[i].dims = "scalar"

\* the variable and the time stamp a term reads at the time stamp t
Point(term, t) ==
    <<term.var, IF IsScalar(term.var) THEN 0 ELSE IF term.roll = 1 THEN Roll(t) ELSE t>>

Points(x, t) == {Point(x.terms[i], t) : i \in DOMAIN x.terms}

\* the value of a flow or an expression at t
Value(x, t, val) ==
    RAdd(RSum([i \in DOMAIN x.terms |->
                  RMul(x.terms[i].coef[t], R(val[Point(x.terms[i], t)]))]),
         x.const[t])

\* the row of a constraint at t holds
RowHolds(c, t, val) ==
    IF c.sign = "="
    THEN Value(ExprFlow(c.terms, ZeroSeries), t, val) = c.rhs[t]
    ELSE RLe(Value(ExprFlow(c.terms, ZeroSeries), t, val), c.rhs[t])

ConstraintsNamed(name) == SelectSeq(model.constraints, LAMBDA c : c.name = name)

SumValues(flows, t, val) == RSum([i \in DOMAIN flows |-> Value(flows[i], t, val)])

FlowPoints(flows, t) == UNION {Points(flows[i], t) : i \in DOMAIN flows}

\* the output flows of a node tagged with the commodity, as magnitudes
OutputFlowsOf(id, commodity) ==
    strip_units(get_flows(attrs[id].output_flows.v, attrs[id].outputs.v,
                          attrs[id].output_commodities.v, commodity),
                commodity)

\* the commodity an output commodity of the node is converted from
InputCommodityOf(id, commodity) ==
    DictGet(get_convertion_factors(Node(id), attrs[id]), commodity).input_commodity

\* the input flows of a node that are converted to the commodity
InputFlowsOf(id, commodity) ==
    strip_units(get_flows(attrs[id].input_flows.v, Node(id).inputs,
                          attrs[id].input_commodities.v, InputCommodityOf(id, commodity)),
                InputCommodityOf(id, commodity))

ConvertFactorOf(id, commodity) ==
    convert_factor_mag(DictGet(get_convertion_factors(Node(id), attrs[id]),
                               commodity).factor,
                       InputCommodityOf(id, commodity), commodity)

NodePoints(id, commodity, t) ==
    FlowPoints(OutputFlowsOf(id, commodity), t)
        \cup FlowPoints(InputFlowsOf(id, commodity), t)

\* the interval length of the time grid in hours
DeltaT ==
    IF args.time_coords.some THEN Rat(args.time_coords.v[2] - args.time_coords.v[1], 2)
    ELSE Rat(HalfHoursPerStep(args.freq), 2)

StorageNodes == {id \in Range(nodes) : Node(id).storage.present}

ChargePoint(id, t) == <<storage_variables(Node(id)).charge, t>>
DischargePoint(id, t) == <<storage_variables(Node(id)).discharge, t>>
LevelPoint(id, t) == <<storage_variables(Node(id)).level, t>>
SizePoint(id) == <<storage_variables(Node(id)).size, 0>>

BalanceRows(id) == ConstraintsNamed("inout_flow_balance_" \o Node(id).name)

(***************************************************************************)
(* C1: after construction every node without storage has, for every        *)
(* distinct output commodity c, a flow-balance constraint whose row at     *)
(* every time stamp holds exactly for the assignments with                 *)
(* sum(output flows tagged c) = convert factor * sum(input flows tagged    *)
(* with the commodity c is converted from).                                *)
(***************************************************************************)
FlowBalanceHolds(id, commodity, t, val) ==
    SumValues(OutputFlowsOf(id, commodity), t, val)
        = RMul(ConvertFactorOf(id, commodity),
               SumValues(InputFlowsOf(id, commodity), t, val))

StorageFlowBalanceHolds(id, commodity, t, val) ==
    RSub(RAdd(SumValues(OutputFlowsOf(id, commodity), t, val),
              RDiv(R(val[ChargePoint(id, t)]), DeltaT)),
         RDiv(R(val[DischargePoint(id, t)]), DeltaT))
        = RMul(ConvertFactorOf(id, commodity),
               SumValues(InputFlowsOf(id, commodity), t, val))

C2_StorageFlowBalance ==
    pc = "constructed" =>
        \A id \in StorageNodes : \A t \in Times :
            \A val \in [NodePoints(id, attrs[id].output_commodities.v[1], t)
                            \cup {ChargePoint(id, t), DischargePoint(id, t)} -> Vals] :
                /\ Len(BalanceRows(id)) = 1
                /\ RowHolds(BalanceRows(id)[1], t, val)
                      <=> StorageFlowBalanceHolds(id, attrs[id].output_commodities.v[1],
                                                  t, val)

StorageRows(id, prefix) == ConstraintsNamed(prefix \o Node(id).name)

\* the time stamp before t, the last one before the first
Predecessor(t) == IF t = 1 THEN NumTimeSteps ELSE t - 1

LevelPoints(id, t) ==
    {LevelPoint(id, t), LevelPoint(id, Predecessor(t)), ChargePoint(id, t),
     DischargePoint(id, t)}

(***************************************************************************)
(* C3: for every storage and every time stamp t the row of the level       *)
(* balance holds exactly for the assignments with                          *)
(* level[t] = (1 - storage_loss) * level[t-1] + (1 - charging_loss) *      *)
(* charge[t] - discharge[t], level[t-1] of the first time stamp being the  *)
(* level at the last one; the level variable appears in no constraint      *)
(* but this one and the one for the maximal level, so that no constraint   *)
(* makes the storage start empty.                                          *)
(***************************************************************************)
LevelBalanceHolds(id, t, val) ==
    R(val[LevelPoint(id, t)])
        = RSub(RAdd(RMul(RSub(R(1), Node(id).storage.storage_loss),
                         R(val[LevelPoint(id, Predecessor(t))])),
                    RMul(RSub(R(1), Node(id).storage.charging_loss),
                         R(val[ChargePoint(id, t)]))),
               R(val[DischargePoint(id, t)]))

C3_LevelBalance ==
    pc = "constructed" =>
        \A id \in StorageNodes :
            /\ Len(StorageRows(id, "storage_level_balance_")) = 1
            /\ \A t \in Times :
               \A val \in [LevelPoints(id, t)
                              \cup Points(StorageRows(id, "storage_level_balance_")[1], t)
                           -> Vals] :
                  RowHolds(StorageRows(id, "storage_level_balance_")[1], t, val)
                      <=> LevelBalanceHolds(id, t, val)
            /\ \A i \in DOMAIN model.constraints :
                  (\E j \in DOMAIN model.constraints[i].terms :
                      model.constraints[i].terms[j].var = storage_variables(Node(id)).level)
                  => model.constraints[i].name
                        \in {"storage_level_balance_" \o Node(id).name,
                             "storage_max_level_" \o Node(id).name}

\* a network with a lossy storage is constructed, and the level balance of
\* the first time stamp holds with a non-zero level at the last time stamp
C3_Witness ==
    /\ pc = "constructed"
    /\ \E id \in StorageNodes :
          /\ Node(id).storage.storage_loss # R(0)
          /\ \E val \in [LevelPoints(id, 1) -> Vals] :
                /\ RowHolds(StorageRows(id, "storage_level_balance_")[1], 1, val)
                /\ val[LevelPoint(id, NumTimeSteps)] > 0

(***************************************************************************)
(* C4: for every storage and every time stamp, every assignment that       *)
(* satisfies the storage constraints and the lower bounds of the variables *)
(* has 0 <= level <= size, 0 <= charge <= size * max_charging_speed * dt   *)
(* and 0 <= discharge <= size * max_charging_speed * dt; the four storage  *)
(* variables have the lower bound 0.                                       *)
(***************************************************************************)
BoundPoints(id, t) ==
    {SizePoint(id), LevelPoint(id, t), ChargePoint(id, t), DischargePoint(id, t)}

LowerBound(var) ==
    model.variables[CHOOSE i \in DOMAIN model.variables :
                        model.variables[i].name = var].lower

C4_StorageBounds ==
    pc = "constructed" =>
        \A id \in StorageNodes :
            /\ \A p \in BoundPoints(id, 1) : LowerBound(p[1]) = R(0)
            /\ \A t \in Times : \A val \in [BoundPoints(id, t) -> Vals] :
                  (/\ RowHolds(StorageRows(id, "max_charging_speed_")[1], t, val)
                   /\ RowHolds(StorageRows(id, "max_discharging_speed_")[1], t, val)
                   /\ RowHolds(StorageRows(id, "storage_max_level_")[1], t, val))
                  => /\ val[LevelPoint(id, t)] <= val[SizePoint(id)]
                     /\ RLe(R(val[ChargePoint(id, t)]),
                            RMul(RMul(R(val[SizePoint(id)]),
                                      Node(id).storage.max_charging_speed), DeltaT))
                     /\ RLe(R(val[DischargePoint(id, t)]),
                            RMul(RMul(R(val[SizePoint(id)]),
                                      Node(id).storage.max_charging_speed), DeltaT))

(***************************************************************************)
(* C5: for every node with proportions of its inputs (or of its outputs),  *)
(* every assignment that satisfies the proportion constraints has, at      *)
(* every time stamp and for every two entries a and b,                     *)
(* flow_a / ratio_a = flow_b / ratio_b; the constraints fix no absolute    *)
(* scale: assignments with non-zero flows satisfy them.                    *)
(***************************************************************************)
ProportionRows(id, proportions) ==
    [i \in DOMAIN proportions |->
        ConstraintsNamed("proportion_" \o Node(id).name \o "_" \o proportions[i].k)]

ProportionsHold(id, proportions, flows, t) ==
    /\ \A i \in DOMAIN proportions : Len(ProportionRows(id, proportions)[i]) = 1
    /\ \A val \in [FlowPoints(DictValues(flows), t) -> Vals] :
          (\A i \in DOMAIN proportions :
                RowHolds(ProportionRows(id, proportions)[i][1], t, val))
          => \A i, j \in DOMAIN proportions :
                RDiv(Value(DictGet(flows, proportions[i].k), t, val), proportions[i].v)
                    = RDiv(Value(DictGet(flows, proportions[j].k), t, val),
                           proportions[j].v)
    /\ \E val \in [FlowPoints(DictValues(flows), t) -> Vals] :
          /\ \A i \in DOMAIN proportions :
                RowHolds(ProportionRows(id, proportions)[i][1], t, val)
          /\ \E p \in DOMAIN val : val[p] > 0

EmptyList == Len(nodes) = 0

MissingInput ==
    \E i \in DOMAIN nodes : \E j \in DOMAIN Node(nodes[i]).inputs :
        Node(nodes[i]).inputs[j] \notin Range(nodes)

DuplicateNames ==
    \E i, j \in DOMAIN nodes : i # j /\ Node(nodes[i]).name = Node(nodes[j]).name

InconsistentSeries ==
    \E i \in DOMAIN nodes :
        /\ Node(nodes[i]).series.num > 0
        /\ SeriesTime(Node(nodes[i])) # date_range(2020, args.freq, NumTimeSteps)

C6_NoModelOnError ==
    (EmptyList \/ MissingInput \/ DuplicateNames \/ InconsistentSeries) =>
        /\ model = NoModel
        /\ pc \in {"start", "check_inputs", "check_names", "set_time_coords",
                   "check_time_coords", "raised"}
        /\ pc = "raised" => exc.type = "ValueError"

\* construction has raised for a list of connected nodes with distinct names
\* in which only the time stamps of a series differ
C6_Witness ==
    /\ pc = "raised"
    /\ exc.type = "ValueError"
    /\ InconsistentSeries
    /\ ~MissingInput
    /\ ~DuplicateNames
    /\ \A i \in DOMAIN nodes : Node(nodes[i]).series.num \in {0, NumTimeSteps}

(***************************************************************************)
(* C7: construction raises the ValueError that lists the components if the *)
(* graph of the declared nodes and their input edges has more than one     *)
(* weakly connected component, and gets past the check exactly if that     *)
(* graph is weakly connected.                                              *)
(***************************************************************************)
DeclaredEdges ==
    UNION {{<<Node(nodes[i]).inputs[j], nodes[i]>> : j \in DOMAIN Node(nodes[i]).inputs} :
              i \in DOMAIN nodes}

DeclaredComponents == {Reachable(DeclaredEdges, {id}) : id \in Range(nodes)}

C7_ConnectedCheck ==
    /\ model.created => Cardinality(DeclaredComponents) = 1
    /\ (pc = "raised" /\ exc.components # {}) => Cardinality(DeclaredComponents) > 1

(***************************************************************************)
(* C8: after construction, for every node n that is not a fixed-output     *)
(* node, n.outputs is the list of the nodes that declare n as an input,    *)
(* whatever n.outputs held before, and n.output_flows has exactly one      *)
(* entry for each of them, with its name as key and the flow variable      *)
(* m.input_flows[n.name] as value; a node without such nodes has the leaf  *)
(* flow only.                                                              *)
(***************************************************************************)
DeclaringNodes(id) == SelectSeq(nodes, LAMBDA m : id \in Range(Node(m).inputs))

KeysOf(d, k) == {i \in DOMAIN d : d[i].k = k}

ObjectiveCoef(var, t) ==
    RSum([i \in DOMAIN model.objective.v |->
            IF model.objective.v[i].var = var /\ model.objective.v[i].t = t
            THEN model.objective.v[i].coef
            ELSE R(0)])

\* the magnitude of a cost in the total cost unit per the unit given
InCurrencyPer(cost, unit) ==
    RDiv(RMul(cost.mag, cost.unit.scale), RDiv(args.total_cost_unit.scale, unit.scale))

SizeUnitOf(id) == default_units[get_size_commodity(Node(id), attrs[id])]

SingleInputFlowOf(id) == attrs[id].input_flows.v[1].v.terms[1].var

UnitCostShare(id, var, t) ==
    IF has_costs(Node(id)) /\ var = attrs[id].size.v /\ t = 0
    THEN InCurrencyPer(Node(id).costs, SizeUnitOf(id))
    ELSE R(0)

StorageCostShare(id, var, t) ==
    IF Node(id).storage.present /\ var = attrs[id].storage_vars.v.size /\ t = 0
    THEN InCurrencyPer(Node(id).storage.costs, SizeUnitOf(id))
    ELSE R(0)

InputFlowCostShare(id, var, t) ==
    IF /\ HasInputFlowCosts(Node(id))
       /\ var = SingleInputFlowOf(id)
       /\ t \in Times
    THEN RMul(InCurrencyPer(Node(id).input_flow_costs,
                            UnitMul(default_units[attrs[id].input_commodities.v[1]], Hour)),
              DeltaT)
    ELSE R(0)

ClaimedCoef(var, t) ==
    RSum([i \in DOMAIN nodes |->
            RAdd(UnitCostShare(nodes[i], var, t),
                 RAdd(StorageCostShare(nodes[i], var, t),
                      InputFlowCostShare(nodes[i], var, t)))])

ObjectiveVariables ==
    {model.variables[i].name : i \in DOMAIN model.variables}
        \cup {model.objective.v[i].var : i \in DOMAIN model.objective.v}

C10_SolverError ==
    /\ pc \in {"check_storage_level_zero", "optimized"} => model.status = "ok"
    /\ storage_checked => model.status = "ok"
    /\ (pc = "raised" /\ model.status \notin {"initialized", "ok"}) =>
          /\ exc.type = "SolverError"
          /\ exc.status = model.status
          /\ exc.termination = model.termination_condition
          /\ model.solution = <<>>

\* optimize has raised for a network the solver reports as infeasible
C10_Witness ==
    /\ pc = "raised"
    /\ exc.type = "SolverError"
    /\ exc.status = "warning"
    /\ exc.termination = "infeasible"
    /\ ~storage_checked

(***************************************************************************)
(* C11: after a solve with status ok, optimize fails with an               *)
(* AssertionError if for some node whose storage has positive costs the    *)
(* level of the solution is at no time stamp within 1e-12 of zero, or at   *)
(* no time stamp within 1e-12 of the size of the storage; storages with    *)
(* costs of zero are not looked at, and optimize succeeds if every storage *)
(* with positive costs is empty at some time stamp and full at some.       *)
(***************************************************************************)
PositiveCostStorages ==
    {id \in Range(nodes) : /\ Node(id).storage.present
                           /\ Node(id).storage.costs.mag[1] > 0}

EmptyOnce(id) == \E t \in Times : model.solution[id].level[t] < Epsilon

FullOnce(id) ==
    \E t \in Times : model.solution[id].size - model.solution[id].level[t] < Epsilon

C11_StorageLevelCheck ==
    /\ storage_checked => pc \in {"optimized", "raised"}
    /\ pc = "optimized" =>
          \A id \in PositiveCostStorages : EmptyOnce(id) /\ FullOnce(id)
    /\ (pc = "raised" /\ storage_checked) =>
          /\ exc.type = "AssertionError"
          /\ model.status = "ok"
          /\ \E id \in PositiveCostStorages : ~EmptyOnce(id) \/ ~FullOnce(id)

\* optimize has failed for a storage with positive costs that is empty at
\* some time stamp, within the epsilon but not exactly, and never full
C11_Witness ==
    /\ pc = "raised"
    /\ exc.msg = "storage never full"
    /\ \E id \in PositiveCostStorages :
          /\ EmptyOnce(id)
          /\ \A t \in Times : model.solution[id].level[t] > 0

(***************************************************************************)
(* C12: for every scalable input node of a Network, whatever its costs,    *)
(* create_variables first creates the size variable of the node and then   *)
(* replaces its input flow by profile * size; the product is never taken   *)
(* with a size variable that does not exist.                               *)
(***************************************************************************)
ScalableInputs == {i \in DOMAIN nodes : Node(nodes[i]).kind = "NodeScalableInput"}

SizeVariableCreated(id) ==
    /\ attrs[id].size.some
    /\ \E j \in DOMAIN model.variables : model.variables[j].name = attrs[id].size.v

ScaledBySize(id) ==
    /\ DictGet(attrs[id].input_flows.v, "").kind = "expr"
    /\ \A j \in DOMAIN DictGet(attrs[id].input_flows.v, "").terms :
          DictGet(attrs[id].input_flows.v, "").terms[j].var = attrs[id].size.v

C12_SizeBeforeProfile ==
    /\ ~(pc = "raised" /\ exc.type = "AttributeError")
    /\ \A i \in ScalableInputs :
          (pc = "create_variables" /\ idx > i) =>
              SizeVariableCreated(nodes[i]) /\ ScaledBySize(nodes[i])

(***************************************************************************)
(* C13: a node with more than one distinct input commodity or more than    *)
(* one distinct output commodity and without convert_factors ends the      *)
(* construction of the Network with the ValueError 'convert_factors is     *)
(* required for multiple input or output commodities' when the constraint  *)
(* pass comes to it, and no constraint of that node is added to the model. *)
(***************************************************************************)
NeedsConvertFactors(id) ==
    /\ ~Node(id).convert_factors.some
    /\ \/ Cardinality(Range(attrs[id].input_commodities.v)) > 1
       \/ Cardinality(Range(attrs[id].output_commodities.v)) > 1

ConstraintsOf(m, id) ==
    {j \in DOMAIN m.constraints :
        \E kind \in {"inout_flow_balance_", "max_charging_speed_", "max_discharging_speed_",
                      "storage_max_level_", "storage_level_balance_", "proportion_",
                      "limit_outflow_by_size_"} :
            \E rest \in {""} \cup {"_" \o Node(n).name : n \in Range(nodes)} :
                m.constraints[j].name = kind \o Node(id).name \o rest}

ConvertFactorsRequired ==
    (pc = "create_constraints" /\ idx <= Len(nodes) /\ NeedsConvertFactors(nodes[idx])) =>
        /\ pc' = "raised"
        /\ exc' = ValueError("convert_factors is required for multiple input or output commodities")
        /\ ConstraintsOf(model', nodes[idx]) = {}

OtherConvertFactor(id) ==
    /\ Node(id).convert_factors.some
    /\ Node(id).convert_factor.some
    /\ Node(id).convert_factor.v # Qty(R(1), Dimensionless)

C14_ConvertFactorsAllowed ==
    /\ (pc = "raised"
        /\ exc.msg = "convert_factors is only allowed if convert_factor is 1.0 or None") =>
            \E id \in Range(nodes) : OtherConvertFactor(id)
    /\ pc = "constructed" => \A id \in Range(nodes) : ~OtherConvertFactor(id)

(***************************************************************************)
(* C15: a Storage on a node kind that does not support it is rejected     *)
(* before any constraint is added: the constructor of a fixed output node *)
(* raises NotImplementedError, and the construction of a Network raises    *)
(* the ValueError 'storage not supported for multiple output commodities' *)
(* for a node whose output edges have more than one distinct commodity.   *)
(***************************************************************************)
ConstructingNode == "cls" \in DOMAIN args

StorageOnOutputNode ==
    ConstructingNode /\ args.cls = "NodeFixOutput" /\ args.storage.present

StorageOnMultipleOutputs(id) ==
    /\ Node(id).storage.present
    /\ attrs[id].output_commodities.some
    /\ Cardinality(Range(attrs[id].output_commodities.v)) > 1

C15_StorageRejected ==
    /\ StorageOnOutputNode => pc # "node_constructed" /\ model = NoModel
    /\ (ConstructingNode /\ exc.type = "NotImplementedError") =>
          StorageOnOutputNode /\ pc = "raised"
    /\ ~ConstructingNode =>
          \A id \in Range(nodes) :
              StorageOnMultipleOutputs(id) =>
                  /\ pc = "raised"
                  /\ exc = ValueError("storage not supported for multiple output commodities")
                  /\ model.constraints = <<>>
    /\ (~ConstructingNode
           /\ exc.msg = "storage not supported for multiple output commodities") =>
          \E id \in Range(nodes) : StorageOnMultipleOutputs(id)

\* the construction of a Network has ended at a node with a storage whose
\* two output edges have the commodities electricity and heat, after the
\* variables of the nodes were created
C15_Witness ==
    /\ ~ConstructingNode
    /\ pc = "raised"
    /\ \E id \in Range(nodes) :
          /\ StorageOnMultipleOutputs(id)
          /\ Range(attrs[id].output_commodities.v) = {"electricity", "heat"}
    /\ model.variables # <<>>

(***************************************************************************)
(* C16: the construction of a Network raises a ValueError for a node that  *)
(* needs a size commodity and has none: a node without downstream nodes    *)
(* ('has no output nodes defined, so size_commmodity must be set') and a   *)
(* node with several distinct output commodities ('missing size_commodity *)
(* parameter, but required for multiple different output commodities').    *)
(***************************************************************************)
OutputsBound(id) == attrs[id].outputs.some /\ attrs[id].output_commodities.some

MissingSizeCommodity(id) ==
    /\ Node(id).kind = "Node"
    /\ ~Node(id).size_commodity.some
    /\ OutputsBound(id)
    /\ \/ attrs[id].outputs.v = <<>>
       \/ Cardinality(Range(attrs[id].output_commodities.v)) > 1

SizeCommodityMessages ==
    {"has no output nodes defined, so size_commmodity must be set",
     "missing size_commodity parameter, but required for multiple different output commodities"}

C16_SizeCommodityRequired ==
    \A id \in Range(nodes) :
        MissingSizeCommodity(id) =>
            /\ pc = "raised"
            /\ exc.type = "ValueError"
            /\ exc.msg \in SizeCommodityMessages

(***************************************************************************)
(* C17: the construction of a Network sets the input commodity of every    *)
(* input node to the one commodity its downstream nodes declare for the    *)
(* edge that comes from it; if they declare different commodities, it      *)
(* fails with the AssertionError 'unexpected number of output_commodities  *)
(* for node ...' and the model has no constraint.                          *)
(***************************************************************************)
InputNodesOfNetwork == {id \in Range(nodes) : IsNodeInputBase(Node(id).kind)}

DownstreamCommodities(id) ==
    {Node(n).input_commodities.v[IndexOf(Node(n).inputs, id)] :
        n \in {n \in Range(nodes) : id \in Range(Node(n).inputs)}}

InputCommoditiesInferred ==
    pc = "set_missing_input_commodities" =>
        IF \E id \in InputNodesOfNetwork : Cardinality(DownstreamCommodities(id)) > 1
        THEN /\ pc' = "raised"
             /\ exc'.type = "AssertionError"
             /\ exc'.msg = "unexpected number of output_commodities"
             /\ model'.constraints = <<>>
        ELSE /\ pc' = "add_leaf_flow_variables"
             /\ \A id \in InputNodesOfNetwork :
                   \A c \in DownstreamCommodities(id) :
                       attrs'[id].input_commodities = Some(<<c>>)

ProportionKeys == Range(DictKeys(args.input_proportions.v))

KeyedByCommodities == ProportionKeys = Range(attrs.input_commodities.v)

ProportionAssertions ==
    {"input_proportions needs to be a dict with keys matching names of inputs",
     "input_proportions needs to sum up to 1."}

C18_ProportionKeys ==
    /\ (pc = "node_constructed" /\ args.input_proportions.some) => KeyedByCommodities
    /\ (pc = "raised" /\ exc.msg \in ProportionAssertions) => ~KeyedByCommodities

(***************************************************************************)
(* C19: a constructed node that is not an input node has a list            *)
(* input_commodities of exactly max(1, number of inputs) labels: a str is  *)
(* repeated that many times, and a list of another length, as the empty    *)
(* list for a node without inputs, raises the ValueError 'invalid number   *)
(* of input_commodities provided for node ...' in the constructor.         *)
(***************************************************************************)
NumLabels == IF Len(args.inputs) = 0 THEN 1 ELSE Len(args.inputs)

WrongNumberOfLabels ==
    /\ ~args.input_commodities.str
    /\ Len(args.input_commodities.list) # NumLabels
    /\ NotANode \notin Range(args.inputs)

C19_InputCommodities ==
    /\ pc = "node_constructed" =>
          /\ Len(attrs.input_commodities.v) = NumLabels
          /\ args.input_commodities.str =>
                attrs.input_commodities.v = Broadcast(args.input_commodities.list[1], args.inputs)
    /\ (WrongNumberOfLabels /\ pc \notin {"node_base_init", "preprocess_input_commodities"}) =>
          /\ pc = "raised"
          /\ exc = ValueError("invalid number of input_commodities provided for node")

(***************************************************************************)
(* C20: every unit that is looked up while a Network is constructed comes  *)
(* from the unit map of the Network, the default units updated with the    *)
(* parameter units: the costs of a node are scaled to the total cost unit  *)
(* per that unit of its size commodity, and a commodity that is defined    *)
(* by the parameter units alone is known.                                  *)
(***************************************************************************)
NetworkSizeUnitOf(id) == network_units[get_size_commodity(Node(id), attrs[id])]

CommoditiesOf(id) ==
    Range(attrs[id].input_commodities.v) \cup Range(attrs[id].output_commodities.v)

C20_NetworkUnits ==
    /\ pc = "constructed" =>
          \A id \in Range(nodes) :
              has_costs(Node(id)) =>
                  ObjectiveCoef(attrs[id].size.v, 0)
                      = InCurrencyPer(Node(id).costs, NetworkSizeUnitOf(id))
    /\ (pc = "raised" /\ exc.type = "KeyError" /\ exc.msg = "default_units") =>
          \E id \in Range(nodes) : ~(CommoditiesOf(id) \subseteq DOMAIN network_units)

(***************************************************************************)
(* C21: the constructor of a Storage accepts max_charging_speed in (0, 1]  *)
(* and storage_loss and charging_loss in [0, 1) only; a parameter out of   *)
(* its range, as a negative loss or a charging speed that is zero or       *)
(* negative, is rejected by the constructor.                               *)
(***************************************************************************)
ValidStorageParameters ==
    /\ RLt(R(0), args.max_charging_speed) /\ RLe(args.max_charging_speed, R(1))
    /\ RLe(R(0), args.storage_loss) /\ RLt(args.storage_loss, R(1))
    /\ RLe(R(0), args.charging_loss) /\ RLt(args.charging_loss, R(1))

C21_StorageParameters ==
    /\ pc = "storage_constructed" => ValidStorageParameters
    /\ pc = "raised" => ~ValidStorageParameters

(***************************************************************************)
(* C22: every construction of a Network validates that its time            *)
(* coordinates are equally spaced and fails if they are not; for equally   *)
(* spaced time coordinates the interval length is their spacing in hours.  *)
(***************************************************************************)
Equidistant(tc) == \A i \in 1..(Len(tc) - 1) : tc[i + 1] - tc[i] = tc[2] - tc[1]

C22_EquallySpaced == pc = "constructed" => Equidistant(time_coords)

(***************************************************************************)
(* C23: for every node of the class Node with costs that are not zero the  *)
(* model has a size variable with the lower bound 0 and one constraint     *)
(* that holds at a time stamp exactly if the sum of the output flows of    *)
(* the node, plus the charge of its storage if it has one, is at most the  *)
(* size; for a node with costs of zero there is neither the size variable  *)
(* nor the constraint.                                                     *)
(***************************************************************************)
GenericNodes == {id \in Range(nodes) : Node(id).kind = "Node"}

SizeName(id) == "size_" \o Node(id).name

SizeVariables(id) ==
    {j \in DOMAIN model.variables : model.variables[j].name = SizeName(id)}

SizeLimitRows(id) == ConstraintsNamed("limit_outflow_by_size_" \o Node(id).name)

SizeLimitPoints(id, t) ==
    FlowPoints(DictValues(attrs[id].output_flows.v), t) \cup {<<SizeName(id), 0>>}
        \cup (IF Node(id).storage.present THEN {ChargePoint(id, t)} ELSE {})

SizeLimitHolds(id, t, val) ==
    RLe(RAdd(SumValues(DictValues(attrs[id].output_flows.v), t, val),
             IF Node(id).storage.present THEN R(val[ChargePoint(id, t)]) ELSE R(0)),
        R(val[<<SizeName(id), 0>>]))

HasTimeVariable(name) ==
    \E j \in DOMAIN model.variables :
        model.variables[j] = [name |-> name, lower |-> R(0), dims |-> "time"]

\* the nodes without an input flow of their own: no inputs and no series
WithoutInputs == {id \in Range(nodes) : Node(id).inputs = <<>> /\ ~IsNodeInputBase(Node(id).kind)}

\* the nodes without downstream nodes and without a series
WithoutOutputs ==
    {id \in Range(nodes) : attrs[id].outputs.v = <<>> /\ ~IsNodeOutputBase(Node(id).kind)}

C24_LeafFlows ==
    /\ exc.msg # "node has no input/output flows"
    /\ pc \in {"create_constraints", "add_objective", "constructed"} =>
          /\ \A id \in Range(nodes) :
                Len(attrs[id].input_flows.v) > 0 /\ Len(attrs[id].output_flows.v) > 0
          /\ \A id \in WithoutInputs :
                /\ attrs[id].input_flows.v = <<[k |-> "", v |-> VarFlow(leaf_input(id))]>>
                /\ HasTimeVariable(leaf_input(id))
          /\ \A id \in WithoutOutputs :
                /\ attrs[id].output_flows.v = <<[k |-> "", v |-> VarFlow(leaf_output(id))]>>
                /\ HasTimeVariable(leaf_output(id))

\* the constraints of a node without inputs and without downstream nodes
\* have been created
C24_Witness ==
    /\ pc = "create_constraints"
    /\ idx > 1
    /\ nodes[idx - 1] \in WithoutInputs \cap WithoutOutputs
    /\ ConstraintsNamed("inout_flow_balance_" \o Node(nodes[idx - 1]).name) # <<>>

(***************************************************************************)
(* C25: the phases of the construction of a Network are ordered:           *)
(* create_variables is done for every node before an output edge is       *)
(* bound; every output edge, missing input commodity and leaf flow is set  *)
(* before create_constraints runs for a node; the objective is set after   *)
(* the constraints of all nodes exist.  A variable that is bound as an     *)
(* output flow exists in the model.                                        *)
(***************************************************************************)
VariableNames == {model.variables[j].name : j \in DOMAIN model.variables}

FlowVariables(flows) ==
    UNION {{flows[j].v.terms[k].var : k \in DOMAIN flows[j].v.terms} : j \in DOMAIN flows}

VariablesCreated(id) ==
    /\ attrs[id].input_flows.some
    /\ FlowVariables(attrs[id].input_flows.v) \subseteq VariableNames
    /\ \A name \in Range(created_variables(Node(id))) : name.name \in VariableNames

EdgesResolved(id) ==
    /\ attrs[id].outputs.some
    /\ attrs[id].output_flows.some /\ Len(attrs[id].output_flows.v) > 0
    /\ attrs[id].output_commodities.some
    /\ attrs[id].input_commodities.some
    /\ Len(attrs[id].input_flows.v) > 0

OutputsBoundTo(id) ==
    \A j \in DOMAIN attrs[id].outputs.v :
        DictGet(attrs[id].output_flows.v, Node(attrs[id].outputs.v[j]).name)
            = DictGet(attrs[attrs[id].outputs.v[j]].input_flows.v, Node(id).name)

C25_Phases ==
    /\ pc \in {"set_output_connections", "set_missing_input_commodities",
                "add_leaf_flow_variables", "create_constraints", "add_objective",
                "constructed"} =>
          \A id \in Range(nodes) : VariablesCreated(id)
    /\ \A id \in Range(nodes) :
          (attrs[id].output_flows.some /\ ~IsNodeOutputBase(Node(id).kind)) =>
              /\ VariablesCreated(id)
              /\ FlowVariables(attrs[id].output_flows.v) \subseteq VariableNames
              /\ OutputsBoundTo(id)
    /\ model.constraints # <<>> => \A id \in Range(nodes) : EdgesResolved(id)
    /\ model.objective.some => pc \in {"constructed", "optimized", "raised", "check_status",
                                        "check_storage_level_zero"}
    /\ model.objective.some => \A id \in Range(nodes) : BalanceRows(id) # <<>>

\* the constraints of the first node are created: the output flow of the
\* node is the input flow variable of its downstream node
C25_Witness ==
    /\ pc = "create_constraints"
    /\ idx = 2
    /\ model.constraints # <<>>
    /\ \E id \in Range(nodes) :
          /\ attrs[id].outputs.v # <<>>
          /\ OutputsBoundTo(id)
          /\ FlowVariables(attrs[id].output_flows.v) \subseteq VariableNames


(***************************************************************************)
(* A caller that builds the same nodes a second time and passes them to    *)
(* Network() in another order.  What the first call ended with is kept in  *)
(* the field "first" of the arguments.                                     *)
(***************************************************************************)
\* Network.__init__ has returned or raised
ConstructionEnded == pc = "constructed" \/ (pc = "raised" /\ ~model.objective.some)

\* the rows of the model without their order and the order of their terms
ConstraintSet(m) ==
    {[name |-> m.constraints[j].name, sign |-> m.constraints[j].sign,
      rhs |-> m.constraints[j].rhs, terms |-> Range(m.constraints[j].terms)] :
        j \in DOMAIN m.constraints}

\* what a call of Network() leaves: an exception, or the compiled model
Compiled ==
    IF pc = "raised"
    THEN [accepted |-> FALSE, variables |-> {}, constraints |-> {}, objective |-> {}]
    ELSE [accepted |-> TRUE, variables |-> Range(model.variables),
          constraints |-> ConstraintSet(model), objective |-> Range(model.objective.v)]

OtherOrders(list) == {p \in NodeLists : Len(p) = Len(list) /\ Range(p) = Range(list)}

Rebuild ==
    /\ ConstructionEnded
    /\ "first" \notin DOMAIN args
    /\ \E p \in OtherOrders(nodes) \ {nodes} : nodes' = p
    /\ args' = [k \in DOMAIN args \cup {"first"} |->
                   IF k = "first" THEN Compiled ELSE args[k]]
    /\ pc' = "start"
    /\ idx' = 1
    /\ exc' = NoException
    /\ time_coords' = <<>>
    /\ model' = NoModel
    /\ attrs' = [id \in Ids |-> InitialAttrs(Node(id))]
    /\ UNCHANGED <<objects, storage_checked>>

Reordered == Init /\ [][Next \/ Rebuild]_vars

(***************************************************************************)
(* C26  The compiled model does not depend on the order of the nodes in    *)
(* the list: when Network() has ended for a second order of the same      *)
(* nodes, it has raised if and only if it raised for the first order, and  *)
(* otherwise the model has the same set of variables, the same set of      *)
(* constraints and the same objective as for the first order.              *)
(***************************************************************************)
C26_OrderIndependent ==
    ("first" \in DOMAIN args /\ ConstructionEnded) => Compiled = args.first

\* a second order of a list of three nodes has been compiled, as the first
C26_Witness ==
    /\ "first" \in DOMAIN args
    /\ pc = "constructed"
    /\ Len(nodes) = 3
    /\ args.first.accepted
    /\ args.first.constraints # {}

(***************************************************************************)
(* C27  Every flow balance constraint is handed to the model with a        *)
(* linear expression that has at least one variable on the left and a      *)
(* constant on the right, for every kind of node: for a node with fixed    *)
(* output flows the sides are swapped, so that the right side is the sum   *)
(* of the output flows; for a node whose input flows are variables the     *)
(* input side is subtracted on the left and the right side is 0.           *)
(***************************************************************************)
\* sum(output_flows_mag) of a node whose output flows are time series
FixedOutputs(id) ==
    SumFlows(strip_units(DictValues(attrs[id].output_flows.v),
                         attrs[id].output_commodities.v[1]))

\* the variables of the input flows of the node
InputVariables(id) ==
    UNION {{f.terms[k].var : k \in DOMAIN f.terms} :
              f \in Range(DictValues(attrs[id].input_flows.v))}

VariablesOnTheLeft(id, c) ==
    /\ IsLinopy(c.left)
    /\ c.left.terms # <<>>
    /\ ~IsLinopy(c.right)
    /\ IsNodeOutputBase(Node(id).kind) =>
          /\ c.right = FixedOutputs(id)
          /\ {c.left.terms[k].var : k \in DOMAIN c.left.terms} = InputVariables(id)
    /\ Node(id).kind \in {"Node", "NodeScalableInput"} =>
          /\ c.right = IntZero
          /\ InputVariables(id) \subseteq {c.left.terms[k].var : k \in DOMAIN c.left.terms}

C27_VariablesOnTheLeft ==
    \A id \in Range(nodes) :
        \A j \in DOMAIN BalanceRows(id) : VariablesOnTheLeft(id, BalanceRows(id)[j])

\* a network of a fixed input, a node and a fixed output has its balances
C27_Witness ==
    /\ pc = "constructed"
    /\ {Node(id).kind : id \in Range(nodes)} = {"NodeFixInput", "Node", "NodeFixOutput"}
    /\ \A id \in Range(nodes) : BalanceRows(id) # <<>>

(***************************************************************************)
(* C28  The names under which variables and constraints are registered in  *)
(* the model are pairwise distinct: no name is used for two variables or   *)
(* for two constraints of a network.                                       *)
(***************************************************************************)
DistinctNames(rows) == \A j, k \in DOMAIN rows : rows[j].name = rows[k].name => j = k

C28_DistinctNames == DistinctNames(model.variables) /\ DistinctNames(model.constraints)

(***************************************************************************)
(* C29  The connectivity check accepts no network because of a name: in a  *)
(* network that got past the check, the vertex '<name>_storage' of a node  *)
(* with a storage is not the name of a node of the list, and the nodes of  *)
(* the list are linked by their input edges alone.                         *)
(***************************************************************************)
StorageVertices ==
    {StorageVertex(Node(id).name) : id \in {n \in Range(nodes) : Node(n).storage.present}}

C29_StorageVertexDistinct ==
    model.created =>
        /\ StorageVertices \cap Range(NodeNames) = {}
        /\ \A id \in Range(nodes) : Reachable(DeclaredEdges, {id}) = Range(nodes)

(***************************************************************************)
(* C30  For every storage, every assignment that satisfies the rows of the *)
(* level balance at all time stamps has a sum of discharge over the time   *)
(* stamps of at most (1 - charging_loss) times the sum of charge, and      *)
(* exactly that if storage_loss is 0.                                      *)
(***************************************************************************)
RECURSIVE Balanced(_, _)
\* the assignments to the storage variables that the rows of the level
\* balance up to the time stamp t read, and that satisfy these rows
Balanced(id, t) ==
    IF t = 0 THEN {[p \in {} |-> 0]}
    ELSE UNION {{val @@ more :
                    more \in {w \in [LevelPoints(id, t) \ DOMAIN val -> Vals] :
                                 RowHolds(StorageRows(id, "storage_level_balance_")[1],
                                          t, val @@ w)}} :
                  val \in Balanced(id, t - 1)}

Charged(id, val) == RSum([t \in Times |-> R(val[ChargePoint(id, t)])])
Discharged(id, val) == RSum([t \in Times |-> R(val[DischargePoint(id, t)])])

\* what is charged over the horizon, net of the loss of charging
NetCharged(id, val) == RMul(RSub(R(1), Node(id).storage.charging_loss), Charged(id, val))

C30_DischargeBounded ==
    pc = "constructed" =>
        \A id \in StorageNodes :
            \A val \in Balanced(id, NumTimeSteps) :
                /\ RLe(Discharged(id, val), NetCharged(id, val))
                /\ Node(id).storage.storage_loss = R(0) =>
                      Discharged(id, val) = NetCharged(id, val)

====
